---- MODULE Spec2Model ----
(***************************************************************************)
(* Assessment engine, assessment store and response scheduler of the       *)
(* health-coaching backend.                                                *)
(*                                                                         *)
(* The in-memory store keeps POINTERS to assessment records: a lookup      *)
(* returns the stored record itself, so every field a service call writes   *)
(* is at once visible to every other call that holds (or looks up) the     *)
(* same record.  userAssessments therefore is the heap of records, keyed   *)
(* by the ID the store assigned, and a service call is a sequence of steps  *)
(* (one per store call or per write of a shared field) that other calls    *)
(* may interleave with.                                                    *)
(*                                                                         *)
(* Strings that the code inspects character by character (answer values)   *)
(* are sequences of one-character strings; identifiers that are only       *)
(* compared are TLA+ strings.                                              *)
(***************************************************************************)
EXTENDS Integers, Sequences, FiniteSets, TLC

(* ----------------------------- bounds --------------------------------- *)

\* Assessments the store may create before CreateUserAssessment blocks.
MaxAssessments == 2

\* Largest reading of the wall clock (time.Now()); the clock may stand still.
MaxClock == 2

\* Service calls the transport admits in a run in which calls overlap.
MaxCalls == 2

\* Service calls the transport admits in a run that serves one at a time.
MaxSeqCalls == 2

\* Service calls the transport admits in a run that looks at the scheduler.
MaxSchedCalls == 1

\* Store calls and pointer writes of the callers in a run that calls the store
\* itself.
MaxStoreCalls == 2

\* Calls of the plan service in a run.
MaxPlanCalls == 3

\* Service calls of the user who answers the whole questionnaire.
MaxFlowCalls == 12

\* Chat requests in a run.
MaxChatRequests == 4

Procs == {"p1", "p2"}

Users == {"u1", "u2"}

(* ------------------------- models/assessment.go ------------------------ *)

AssessmentStatusInProgress == "in_progress"
AssessmentStatusCompleted == "completed"
AssessmentStatusCancelled == "cancelled"

\* A nil *models.UserAssessment, a nil *models.AssessmentQuestion, a nil
\* *time.Time and a nil error.
NilAssessment == 0
NilQuestion == "nil"
NilTime == 0
NoError == "nil"

(* ------------------------------ strings -------------------------------- *)

IsSpace(c) == c \in {" ", "\t", "\n", "\r"}

RECURSIVE TrimLeft(_)
TrimLeft(s) ==
  IF s = <<>> THEN s
  ELSE IF IsSpace(Head(s)) THEN TrimLeft(Tail(s)) ELSE s

RECURSIVE TrimRight(_)
TrimRight(s) ==
  IF s = <<>> THEN s
  ELSE IF IsSpace(s[Len(s)]) THEN TrimRight(SubSeq(s, 1, Len(s) - 1)) ELSE s

\* strings.TrimSpace
TrimSpace(s) == TrimRight(TrimLeft(s))

\* the letters strings.ToLower maps, and what it maps them to
UpperCase == <<"A","B","C","D","E","F","G","H","I","J","K","L","M",
               "N","O","P","Q","R","S","T","U","V","W","X","Y","Z">>
LowerCase == <<"a","b","c","d","e","f","g","h","i","j","k","l","m",
               "n","o","p","q","r","s","t","u","v","w","x","y","z">>

\* strings.ToLower
ToLower(s) ==
  [i \in 1..Len(s) |->
     IF \E k \in 1..Len(UpperCase) : UpperCase[k] = s[i]
     THEN LowerCase[CHOOSE k \in 1..Len(UpperCase) : UpperCase[k] = s[i]]
     ELSE s[i]]

\* strings.Contains: substr is within s
Contains(s, substr) ==
  \E i \in 0..(Len(s) - Len(substr)) : SubSeq(s, i + 1, i + Len(substr)) = substr

\* contains: the slice holds the item
contains(slice, item) == \E i \in 1..Len(slice) : slice[i] = item

(* --------------------------- question catalog -------------------------- *)

getDefaultAssessmentQuestions ==
  << [ID |-> "q_welcome", Order |-> 0, IsRequired |-> TRUE],
     [ID |-> "q_age_group", Order |-> 1, IsRequired |-> TRUE],
     [ID |-> "q_chronic_diseases", Order |-> 2, IsRequired |-> TRUE],
     [ID |-> "q_medications", Order |-> 3, IsRequired |-> TRUE],
     [ID |-> "q_exercise_habits", Order |-> 4, IsRequired |-> TRUE],
     [ID |-> "q_sleep_quality", Order |-> 5, IsRequired |-> TRUE],
     [ID |-> "q_stress_level", Order |-> 6, IsRequired |-> TRUE],
     [ID |-> "q_sex_frequency_satisfaction", Order |-> 7, IsRequired |-> TRUE],
     [ID |-> "q_sex_ability_concerns", Order |-> 8, IsRequired |-> TRUE],
     [ID |-> "q_main_goals", Order |-> 9, IsRequired |-> TRUE],
     [ID |-> "q_privacy_consent", Order |-> 10, IsRequired |-> TRUE] >>

\* sort.Slice(definedQuestions, Order <): insertion of each element before
\* the first element of greater Order.
RECURSIVE InsertByOrder(_, _)
InsertByOrder(q, sorted) ==
  IF sorted = <<>> THEN <<q>>
  ELSE IF q.Order < Head(sorted).Order THEN <<q>> \o sorted
       ELSE <<Head(sorted)>> \o InsertByOrder(q, Tail(sorted))

RECURSIVE SortByOrder(_)
SortByOrder(qs) ==
  IF qs = <<>> THEN <<>>
  ELSE InsertByOrder(qs[Len(qs)], SortByOrder(SubSeq(qs, 1, Len(qs) - 1)))

\* a catalog kept in descending Order
questions_Descending ==
  LET sorted == SortByOrder(getDefaultAssessmentQuestions)
  IN [i \in 1..Len(sorted) |-> sorted[Len(sorted) + 1 - i]]

\* s.questions of the service NewAssessmentService builds
questions == SortByOrder(getDefaultAssessmentQuestions)

QuestionIDs == {questions[i].ID : i \in 1..Len(questions)}

\* s.questionsByID: the id -> definition map built from the sorted copy
questionsByID == [id \in QuestionIDs |->
                    CHOOSE q \in {questions[i] : i \in 1..Len(questions)} : q.ID = id]

\* position of a question id in s.questions, 0 when absent (the code's -1)
IndexInList(id) ==
  IF \E i \in 1..Len(questions) : questions[i].ID = id
  THEN CHOOSE i \in 1..Len(questions) :
         /\ questions[i].ID = id
         /\ \A j \in 1..(i - 1) : questions[j].ID # id
  ELSE 0

\* an ordinary answer
Yes == <<"Y", "e", "s">>

(* the two declining options processSpecialAnswers looks for *)
NoNextTime == <<"N","o",","," ","n","e","x","t"," ","t","i","m","e">>
IDoNotAgree == <<"I"," ","d","o"," ","n","o","t"," ","a","g","r","e","e">>

(* ------------------------------- state --------------------------------- *)

VARIABLES
  userAssessments,   \* assessmentRepository.userAssessments: ID -> the record stored
  userIndex,         \* assessmentRepository.userIndex: userID -> list of IDs
  nextAssessmentID,  \* assessmentRepository.nextAssessmentID
  clock,             \* the reading time.Now() gives
  goroutines,        \* the request goroutines the transport runs side by side
  clients,           \* the users whose requests arrive
  callsLeft,         \* service calls the transport still admits
  call,              \* per goroutine: the service call it is inside, and its locals
  ret,               \* what the most recently returned service call returned
  muAssessments,     \* the store's sync.RWMutex: held for writing, readers inside
  repoCall,          \* per goroutine: the store call it makes itself, and its pointers
  planTasks,         \* the rows of table plan_tasks, by task ID
  planCall,          \* per goroutine: the plan service call it is inside
  planRet,           \* what the most recently returned plan service call returned
  guestQuotas,       \* MessagesSent of the rows of table guest_quotas, by guest
  chatCall           \* per goroutine: the chat request it is handling

vars == <<userAssessments, userIndex, nextAssessmentID, clock, goroutines, clients,
          callsLeft, call, ret, muAssessments, repoCall,
          planTasks, planCall, planRet, guestQuotas, chatCall>>

envVars == <<goroutines, clients, clock>>

repoVars == <<userAssessments, userIndex, nextAssessmentID>>

lockVars == <<muAssessments, repoCall>>

planVars == <<planTasks, planCall, planRet>>

quotaVars == <<guestQuotas, chatCall>>

\* the locals of a service call: where it stands (pc), its arguments, the
\* record it holds (assessment, by ID), the question it settled on, the
\* Answers slice its answer search read, and whether it took the branch that
\* creates the record
Frame(pc, op, userID, questionID, answerValues, assessment, nextQuestionToShow, seen, created) ==
  [pc |-> pc, op |-> op, userID |-> userID, questionID |-> questionID,
   answerValues |-> answerValues, assessment |-> assessment,
   nextQuestionToShow |-> nextQuestionToShow, seen |-> seen,
   created |-> created]

\* a goroutine that is inside no service call
Idle == Frame("idle", "none", "", "", <<>>, NilAssessment, NilQuestion, <<>>, FALSE)

\* what a service call returned: (question, assessment, error) of the
\* assessment service, (selected, error) of the scheduler (nilList: the list
\* returned is the nil slice)
Returned(op, userID, question, assessment, err, selected, analyzed) ==
  [op |-> op, userID |-> userID, question |-> question, assessment |-> assessment,
   err |-> err, selected |-> selected, analyzed |-> analyzed,
   nilList |-> FALSE]

\* no call has returned yet
NoReturn == Returned("none", "", NilQuestion, NilAssessment, NoError, <<>>, FALSE)

(* -------------------- repository: assessmentRepository ----------------- *)

\* muAssessments with no goroutine inside: not held for writing, no reader
Unlocked == [writer |-> FALSE, readers |-> 0]

\* a Lock() that waits for a writer only
CanLock_AmongReaders(mu) == ~mu.writer

\* Lock() returns: no goroutine holds the mutex, for writing or for reading
CanLock(mu) == ~mu.writer /\ mu.readers = 0

\* RLock() returns: no goroutine holds the mutex for writing
CanRLock(mu) == ~mu.writer

\* a loop that keeps the first record of the status it comes to, whatever
\* the UpdatedAt of the others
RECURSIVE ScanIndex_LastCreated(_, _, _, _, _, _)
ScanIndex_LastCreated(store, ids, i, targetStatus, latest, latestTimestamp) ==
  IF i = 0 THEN latest
  ELSE LET id == ids[i]
           take == /\ id \in DOMAIN store
                   /\ (targetStatus # "" => store[id].Status = targetStatus)
                   /\ latest = NilAssessment
       IN ScanIndex_LastCreated(store, ids, i - 1, targetStatus,
                                IF take THEN id ELSE latest, latestTimestamp)

\* the loop of GetUserAssessmentByUserID, from the last index entry to the
\* first: a record replaces the one held only if its UpdatedAt is After it
RECURSIVE ScanIndex(_, _, _, _, _, _)
ScanIndex(store, ids, i, targetStatus, latest, latestTimestamp) ==
  IF i = 0 THEN latest
  ELSE LET id == ids[i]
           exists == id \in DOMAIN store
           take == /\ exists
                   /\ (targetStatus # "" => store[id].Status = targetStatus)
                   /\ (latest = NilAssessment \/ store[id].UpdatedAt > latestTimestamp)
       IN ScanIndex(store, ids, i - 1, targetStatus,
                    IF take THEN id ELSE latest,
                    IF take THEN store[id].UpdatedAt ELSE latestTimestamp)

\* a lookup that does not look at the status asked for
GetUserAssessmentByUserID_AnyStatus(store, index, userID, statusFilter) ==
  IF userID \notin DOMAIN index \/ Len(index[userID]) = 0
  THEN NilAssessment
  ELSE ScanIndex(store, index[userID], Len(index[userID]), "",
                 NilAssessment, NilTime)

\* GetUserAssessmentByUserID(userID, statusFilter): the record found (its ID,
\* which names the stored record itself) or NilAssessment; the error is
\* always nil.  statusFilter "" stands for no filter.
GetUserAssessmentByUserID(store, index, userID, statusFilter) ==
  IF userID \notin DOMAIN index \/ Len(index[userID]) = 0
  THEN NilAssessment
  ELSE ScanIndex(store, index[userID], Len(index[userID]), statusFilter,
                 NilAssessment, NilTime)

\* The record CreateUserAssessment stores for the argument it is given.
CreatedRecord(assessment, id, now) ==
  [assessment EXCEPT
     !.ID = id,
     !.CreatedAt = now,
     !.UpdatedAt = now,
     !.Status = IF assessment.Status = "" THEN AssessmentStatusInProgress
                ELSE assessment.Status,
     !.StartedAt = IF assessment.StartedAt = NilTime THEN now
                   ELSE assessment.StartedAt]

\* an update that stores the argument as it is given
UpdatedRecord_AsGiven(originalAssessment, assessment, now) ==
  [assessment EXCEPT !.UpdatedAt = now]

\* The record UpdateUserAssessment stores for the argument it is given: the
\* argument with UserID, StartedAt and CreatedAt of the record stored so far.
UpdatedRecord(originalAssessment, assessment, now) ==
  [assessment EXCEPT
     !.UserID = originalAssessment.UserID,
     !.StartedAt = originalAssessment.StartedAt,
     !.CreatedAt = originalAssessment.CreatedAt,
     !.UpdatedAt = now]

\* a new record that already points at the second question
NewAssessment_SecondQuestion(userID, now) ==
  [ID |-> 0, UserID |-> userID, Answers |-> <<>>,
   Status |-> AssessmentStatusInProgress, CurrentQuestionID |-> "q_age_group",
   StartedAt |-> now, CompletedAt |-> NilTime,
   CreatedAt |-> NilTime, UpdatedAt |-> NilTime]

\* &models.UserAssessment{UserID, Status: in_progress, StartedAt: now,
\* Answers: make([]UserAnswer, 0)} of StartOrContinueAssessment
NewAssessment(userID, now) ==
  [ID |-> 0, UserID |-> userID, Answers |-> <<>>,
   Status |-> AssessmentStatusInProgress, CurrentQuestionID |-> "",
   StartedAt |-> now, CompletedAt |-> NilTime,
   CreatedAt |-> NilTime, UpdatedAt |-> NilTime]

\* The transport admits a call of goroutine p: p is idle and the run has
\* calls left.
Admit(p) ==
  /\ p \in goroutines
  /\ call[p].pc = "idle"
  /\ callsLeft > 0
  /\ callsLeft' = callsLeft - 1

(* --------------------- models/plan.go, plan tables -------------------- *)

TaskStatusPending == "pending"
TaskStatusCompleted == "completed"
TaskStatusSkipped == "skipped"
TaskStatusFailed == "failed"

\* gorm.NullTime
NullTime(time, valid) == [Time |-> time, Valid |-> valid]

\* a row of plan_tasks as GeneratePlan creates it: pending, IsCompleted false
\* (the column default), CompletedAt not valid
PendingTask(id, planID) ==
  [ID |-> id, PlanID |-> planID, Status |-> TaskStatusPending,
   IsCompleted |-> FALSE, CompletedAt |-> NullTime(NilTime, FALSE)]

\* a nil *models.PlanTask
NilTask == [PendingTask(0, 0) EXCEPT !.Status = ""]

\* the rows of table plans: the UserID of the plan, by plan ID
plans == <<"u1", "u2">>

\* The rows of plan_tasks after plan generation: a task of each plan, and a
\* task whose plan is not in table plans.
GeneratedTasks == <<PendingTask(1, 1), PendingTask(2, 2), PendingTask(3, 3)>>

\* the locals of a plan service call: where it stands (pc), its arguments,
\* and the task GetTaskByID returned (a copy of the row)
PlanFrame(pc, op, taskID, userID, task) ==
  [pc |-> pc, op |-> op, taskID |-> taskID, userID |-> userID, task |-> task]

PlanIdle == PlanFrame("idle", "none", 0, "", NilTask)

\* what a plan service call returned: (task, error)
PlanReturned(op, taskID, userID, task, err) ==
  [op |-> op, taskID |-> taskID, userID |-> userID, task |-> task, err |-> err]

NoPlanReturn == PlanReturned("none", 0, "", NilTask, NoError)

\* no plan service call has been made
PlanServiceIdle ==
  /\ planTasks = GeneratedTasks
  /\ planCall = [p \in Procs |-> PlanIdle]
  /\ planRet = NoPlanReturn

(* ------------------- models/quota.go, chat requests ------------------- *)

\* strings.HasPrefix
HasPrefix(s, prefix) ==
  Len(s) >= Len(prefix) /\ SubSeq(s, 1, Len(prefix)) = prefix

\* the UserIDs of chat requests: two guests, a registered user, and a
\* registered user whose ID only begins like a guest's
ChatUsers ==
  {<<"g", "u", "e", "s", "t", "_", "1">>, <<"g", "u", "e", "s", "t", "_", "2">>,
   <<"u", "1">>, <<"g", "u", "e", "s", "t">>}

\* config.AppConfig.GuestChatQuota, the configured number of messages a guest
\* may send
GuestChatQuota == 2

\* the prefix of a guest's UserID (handler.go line 135)
GuestPrefix == <<"g", "u", "e", "s", "t", "_">>

\* the locals of ChatHandler: where it stands (pc) and clientReq.UserID
ChatFrame(pc, userID) == [pc |-> pc, userID |-> userID]

ChatIdle == ChatFrame("idle", <<>>)

\* no chat request has been made: table guest_quotas has no row (a guest
\* without a row has sent 0 messages)
ChatHandlerIdle ==
  /\ guestQuotas = [u \in ChatUsers |-> 0]
  /\ chatCall = [p \in Procs |-> ChatIdle]

\* A *models.UserAssessment as a caller of the store holds it: nil, the
\* record the store keeps under an ID (whatever is written through the pointer
\* is written to the stored record), or a record the store does not keep (one
\* the caller built, or one the store kept until an update replaced it).
NilPointer == [kind |-> "nil", id |-> NilAssessment, object |-> NewAssessment("", NilTime)]

StoredPointer(id) == [NilPointer EXCEPT !.kind = "stored", !.id = id]

OwnPointer(object) == [NilPointer EXCEPT !.kind = "own", !.object = object]

\* *pointer
Deref(store, pointer) ==
  IF pointer.kind = "stored" THEN store[pointer.id] ELSE pointer.object

\* the locals of a goroutine that calls the store itself: the method it is
\* inside (pc), the method's arguments, the pointer the goroutine holds
\* (held), and of the method that returned last its name (op), its error and
\* the record its argument pointed at when it was called (passed)
RepoFrame(pc, assessment, userID, statusFilter, held, op, passed, err) ==
  [pc |-> pc, assessment |-> assessment, userID |-> userID,
   statusFilter |-> statusFilter, held |-> held, op |-> op,
   passed |-> passed, err |-> err]

\* a goroutine that has not called the store itself
NoRepoCall ==
  RepoFrame("idle", NilPointer, "", "", NilPointer, "none", NilPointer.object, NoError)

\* The record of a user who was asked the questions in order and answered
\* the first k of them with Yes, all within one reading of the clock.
AssessmentAt(userID, k, now) ==
  [ID |-> 1, UserID |-> userID,
   Answers |-> [i \in 1..k |-> [QuestionID |-> questions[i].ID, Answer |-> <<Yes>>]],
   Status |-> AssessmentStatusInProgress,
   CurrentQuestionID |-> questions[k + 1].ID,
   StartedAt |-> now, CompletedAt |-> NilTime, CreatedAt |-> now, UpdatedAt |-> now]

\* The record of a user who answered every question with Yes.
CompletedAssessment(userID, now) ==
  [AssessmentAt(userID, Len(questions) - 1, now) EXCEPT
     !.Answers = [i \in 1..Len(questions) |->
                    [QuestionID |-> questions[i].ID, Answer |-> <<Yes>>]],
     !.Status = AssessmentStatusCompleted,
     !.CurrentQuestionID = "",
     !.CompletedAt = now]

\* The record of a user who declined when asked question k+1.
CancelledAssessment(userID, k, now) ==
  [AssessmentAt(userID, k, now) EXCEPT
     !.Status = AssessmentStatusCancelled,
     !.CurrentQuestionID = ""]

\* the store after construction
EmptyStore ==
  /\ userAssessments = <<>>
  /\ userIndex = [u \in Users |-> <<>>]
  /\ nextAssessmentID = 1

\* the store holding one record, the first one created
StoreWith(rec) ==
  /\ userAssessments = <<rec>>
  /\ userIndex = [u \in Users |-> IF u = rec.UserID THEN <<rec.ID>> ELSE <<>>]
  /\ nextAssessmentID = rec.ID + 1

\* Records the service leaves in the store serving one request at a time:
\* user u1 has been asked question k+1, has completed the assessment, or has
\* declined at the first or at the last question.
SeqStarts ==
  {AssessmentAt("u1", k, 1) : k \in 0..(Len(questions) - 1)}
  \cup {CompletedAssessment("u1", 1),
        CancelledAssessment("u1", 0, 1),
        CancelledAssessment("u1", Len(questions) - 1, 1)}

\* The positions overlapping calls start from: the first question, a
\* question in the middle, the one before the last, and the last.
RacePositions == {0, 1, Len(questions) - 2, Len(questions) - 1}

\* The service serving one request at a time, of any user, for MaxSeqCalls
\* calls.
InitSeq ==
  /\ \/ EmptyStore
     \/ \E rec \in SeqStarts : StoreWith(rec)
  /\ clock = 1
  /\ goroutines = {"p1"}
  /\ clients = Users
  /\ callsLeft = MaxSeqCalls
  /\ call = [p \in Procs |-> Idle]
  /\ ret = NoReturn
  /\ muAssessments = Unlocked
  /\ repoCall = [p \in Procs |-> NoRepoCall]
  /\ PlanServiceIdle
  /\ ChatHandlerIdle

\* The service serving the requests of one user side by side, for MaxCalls
\* calls.
Init ==
  /\ \/ EmptyStore
     \/ \E k \in RacePositions : StoreWith(AssessmentAt("u1", k, 1))
  /\ clock = 1
  /\ goroutines = Procs
  /\ clients = {"u1"}
  /\ callsLeft = MaxCalls
  /\ call = [p \in Procs |-> Idle]
  /\ ret = NoReturn
  /\ muAssessments = Unlocked
  /\ repoCall = [p \in Procs |-> NoRepoCall]
  /\ PlanServiceIdle
  /\ ChatHandlerIdle

\* Records the scheduler finds in the store: user u1 is inside an assessment
\* (at its first or its last question), has completed one, or has declined.
SchedStarts ==
  {AssessmentAt("u1", 0, 1), AssessmentAt("u1", Len(questions) - 1, 1),
   CompletedAssessment("u1", 1), CancelledAssessment("u1", 0, 1)}

\* The service serving one request at a time, of any user, for MaxSchedCalls
\* calls, the scheduler's among them.
InitSched ==
  /\ \/ EmptyStore
     \/ \E rec \in SchedStarts : StoreWith(rec)
  /\ clock = 1
  /\ goroutines = {"p1"}
  /\ clients = Users
  /\ callsLeft = MaxSchedCalls
  /\ call = [p \in Procs |-> Idle]
  /\ ret = NoReturn
  /\ muAssessments = Unlocked
  /\ repoCall = [p \in Procs |-> NoRepoCall]
  /\ PlanServiceIdle
  /\ ChatHandlerIdle

\* the store holding two records of one user, created one after the other
StoreWithTwo(first, second) ==
  /\ userAssessments = <<first, second>>
  /\ userIndex = [u \in Users |-> IF u = first.UserID THEN <<1, 2>> ELSE <<>>]
  /\ nextAssessmentID = 3

\* a record as the second one created, last updated at the time given
AsSecond(rec, updatedAt) == [rec EXCEPT !.ID = 2, !.UpdatedAt = updatedAt]

\* Two records of user u1, left by earlier calls: two completed ones, the one
\* created later updated later, at the same time, or earlier (it was created
\* by a call that overlapped the call creating the other, and was completed
\* first); a completed or cancelled one and one that is completed, cancelled
\* or in progress.
ResultStarts ==
  {<<CompletedAssessment("u1", 1), AsSecond(CompletedAssessment("u1", 1), 2)>>,
   <<CompletedAssessment("u1", 1), AsSecond(CompletedAssessment("u1", 1), 1)>>,
   <<[CompletedAssessment("u1", 1) EXCEPT !.UpdatedAt = 2, !.CompletedAt = 2],
     AsSecond(CompletedAssessment("u1", 1), 1)>>,
   <<CompletedAssessment("u1", 1), AsSecond(AssessmentAt("u1", 1, 1), 2)>>,
   <<CompletedAssessment("u1", 1), AsSecond(CancelledAssessment("u1", 0, 1), 2)>>,
   <<CancelledAssessment("u1", 0, 1), AsSecond(AssessmentAt("u1", 0, 1), 1)>>}

\* the latest UpdatedAt of two records
LaterOf(first, second) ==
  IF first.UpdatedAt > second.UpdatedAt THEN first.UpdatedAt ELSE second.UpdatedAt

\* The service serving one request at a time after earlier calls have left
\* no record, one record or two records of user u1.
InitResult ==
  /\ \/ EmptyStore /\ clock = 1
     \/ \E k \in {0, Len(questions) - 1} : StoreWith(AssessmentAt("u1", k, 1)) /\ clock = 1
     \/ \E pair \in ResultStarts :
          StoreWithTwo(pair[1], pair[2]) /\ clock = LaterOf(pair[1], pair[2])
  /\ goroutines = {"p1"}
  /\ clients = Users
  /\ callsLeft = MaxSeqCalls
  /\ call = [p \in Procs |-> Idle]
  /\ ret = NoReturn
  /\ muAssessments = Unlocked
  /\ repoCall = [p \in Procs |-> NoRepoCall]
  /\ PlanServiceIdle
  /\ ChatHandlerIdle

\* the steps of a call that read time.Now()
ReadsClock == {"soc_create", "soc_completed_at", "soc_update",
               "sa_cancel_update", "sa_completed_at", "sa_update"}

\* Time passes before a call reads the clock (how far the clock advances
\* while no call is about to read it makes no difference to any reading's
\* order).
Tick ==
  /\ clock < MaxClock
  /\ \E p \in goroutines : call[p].pc \in ReadsClock
  /\ clock' = clock + 1
  /\ UNCHANGED <<repoVars, goroutines, clients, callsLeft, call, ret, lockVars, planVars, quotaVars>>

(* ------------------ services: StartOrContinueAssessment ---------------- *)

\* Status == completed || Status == cancelled (lines 445, 523, 635)
IsTerminal(status) ==
  status \in {AssessmentStatusCompleted, AssessmentStatusCancelled}

\* a check that takes every question for answered
Answered_Always(assessment, questionID) == TRUE

\* whether the record holds an answer to the question
Answered(assessment, questionID) ==
  \E i \in 1..Len(assessment.Answers) : assessment.Answers[i].QuestionID = questionID

\* Lines 450-507: what StartOrContinueAssessment settles on for a record that
\* is not terminal: the question to show, whether the assessment is complete,
\* and the error of the branches that return at once.
DecideNext(assessment) ==
  LET cur == assessment.CurrentQuestionID
      none == [next |-> NilQuestion, complete |-> FALSE, err |-> NoError]
  IN IF cur = "" \/ cur \notin DOMAIN questionsByID
     THEN IF Len(questions) > 0
          THEN [none EXCEPT !.next = questions[1].ID]
          ELSE [none EXCEPT !.err = "questionnaire_not_configured"]
     ELSE IF Answered(assessment, cur)
          THEN LET i == IndexInList(cur)
               IN IF i = 0 THEN [none EXCEPT !.err = "internal_error"]
                  ELSE IF i + 1 <= Len(questions)
                       THEN [none EXCEPT !.next = questions[i + 1].ID]
                       ELSE [none EXCEPT !.complete = TRUE]
          ELSE [none EXCEPT !.next = questionsByID[cur].ID]

\* Lines 417-441: the lookup of the in-progress assessment; none found, the
\* new record is built and the call goes on to create it.
StartOrContinueAssessment_Lookup(p, userID) ==
  /\ Admit(p)
  /\ LET found == GetUserAssessmentByUserID(userAssessments, userIndex, userID,
                                            AssessmentStatusInProgress)
     IN call' = [call EXCEPT ![p] =
          IF found = NilAssessment
          THEN Frame("soc_create", "StartOrContinue", userID, "", <<>>,
                     NilAssessment, NilQuestion, <<>>, TRUE)
          ELSE Frame("soc_decide", "StartOrContinue", userID, "", <<>>,
                     found, NilQuestion, <<>>, FALSE)]
  /\ UNCHANGED <<repoVars, envVars, lockVars, planVars, quotaVars, ret>>

\* Lines 432-438 with CreateUserAssessment (repository lines 38-64), which
\* runs under the store's write lock.
StartOrContinueAssessment_Create(p) ==
  /\ call[p].pc = "soc_create"
  /\ IF call[p].userID = ""
     THEN /\ ret' = Returned("StartOrContinue", call[p].userID, NilQuestion,
                             NilAssessment, "create_failed", <<>>, FALSE)
          /\ call' = [call EXCEPT ![p] = Idle]
          /\ UNCHANGED repoVars
     ELSE /\ nextAssessmentID <= MaxAssessments
          /\ LET id == nextAssessmentID
                 rec == CreatedRecord(NewAssessment(call[p].userID, clock),
                                      id, clock)
             IN /\ userAssessments' = Append(userAssessments, rec)
                /\ userIndex' = [userIndex EXCEPT ![rec.UserID] = Append(@, id)]
                /\ nextAssessmentID' = id + 1
                /\ call' = [call EXCEPT ![p].pc = "soc_decide", ![p].assessment = id]
          /\ UNCHANGED ret
  /\ UNCHANGED <<envVars, lockVars, planVars, quotaVars, callsLeft>>

\* Lines 445-507: the terminal check, then the choice of the next question;
\* the branch that finds the last question answered writes Status (line 491).
StartOrContinueAssessment_Decide(p) ==
  /\ call[p].pc = "soc_decide"
  /\ LET id == call[p].assessment
         a == userAssessments[id]
         d == DecideNext(a)
         terminal == IsTerminal(a.Status)
     IN IF terminal \/ d.err # NoError
        THEN /\ ret' = Returned("StartOrContinue", call[p].userID, NilQuestion, id,
                                IF terminal THEN NoError ELSE d.err, <<>>, FALSE)
             /\ call' = [call EXCEPT ![p] = Idle]
             \* the empty-catalog branch marks the record completed and updates it
             /\ userAssessments' =
                  IF ~terminal /\ d.err = "questionnaire_not_configured"
                                /\ a.CurrentQuestionID = ""
                  THEN [userAssessments EXCEPT ![id] =
                          UpdatedRecord(a, [a EXCEPT !.Status = AssessmentStatusCompleted],
                                        clock)]
                  ELSE userAssessments
        ELSE IF d.complete
        THEN /\ userAssessments' =
                  [userAssessments EXCEPT ![id].Status = AssessmentStatusCompleted]
             /\ call' = [call EXCEPT ![p].pc = "soc_completed_at"]
             /\ UNCHANGED ret
        ELSE /\ call' = [call EXCEPT ![p].pc = "soc_current",
                                     ![p].nextQuestionToShow = d.next]
             /\ UNCHANGED <<userAssessments, ret>>
  /\ UNCHANGED <<userIndex, nextAssessmentID, envVars, lockVars, planVars, quotaVars, callsLeft>>

\* Lines 492-493 (CompletedAt = &now) and 510-514 (CurrentQuestionID from the
\* status the record has by then, or from the question settled on).
StartOrContinueAssessment_Write(p) ==
  /\ call[p].pc \in {"soc_completed_at", "soc_current"}
  /\ LET id == call[p].assessment
         a == userAssessments[id]
     IN IF call[p].pc = "soc_completed_at"
        THEN /\ userAssessments' = [userAssessments EXCEPT ![id].CompletedAt = clock]
             /\ call' = [call EXCEPT ![p].pc = "soc_current"]
        ELSE /\ userAssessments' =
                  IF a.Status = AssessmentStatusCompleted
                  THEN [userAssessments EXCEPT ![id].CurrentQuestionID = ""]
                  ELSE IF call[p].nextQuestionToShow # NilQuestion
                       THEN [userAssessments EXCEPT
                               ![id].CurrentQuestionID = call[p].nextQuestionToShow]
                       ELSE userAssessments
             /\ call' = [call EXCEPT ![p].pc = "soc_update"]
  /\ UNCHANGED <<userIndex, nextAssessmentID, envVars, lockVars, planVars, quotaVars, callsLeft, ret>>

\* Lines 516-521 with UpdateUserAssessment (repository lines 132-151), which
\* runs under the store's write lock; the argument is the stored record.
StartOrContinueAssessment_Update(p) ==
  /\ call[p].pc = "soc_update"
  /\ LET id == call[p].assessment
     IN IF id \in DOMAIN userAssessments
        THEN /\ userAssessments' = [userAssessments EXCEPT ![id] =
                                      UpdatedRecord(@, @, clock)]
             /\ call' = [call EXCEPT ![p].pc = "soc_return"]
             /\ UNCHANGED ret
        ELSE /\ ret' = Returned("StartOrContinue", call[p].userID,
                                call[p].nextQuestionToShow, id, "update_failed",
                                <<>>, FALSE)
             /\ call' = [call EXCEPT ![p] = Idle]
             /\ UNCHANGED userAssessments
  /\ UNCHANGED <<userIndex, nextAssessmentID, envVars, lockVars, planVars, quotaVars, callsLeft>>

\* Lines 523-534: the return, decided by the status the record has by then.
StartOrContinueAssessment_Return(p) ==
  /\ call[p].pc = "soc_return"
  /\ LET id == call[p].assessment
         a == userAssessments[id]
         terminal == IsTerminal(a.Status)
         next == call[p].nextQuestionToShow
     IN ret' = Returned("StartOrContinue", call[p].userID,
                        IF terminal THEN NilQuestion ELSE next, id,
                        IF ~terminal /\ next = NilQuestion
                        THEN "unable_to_determine" ELSE NoError,
                        <<>>, FALSE)
  /\ call' = [call EXCEPT ![p] = Idle]
  /\ UNCHANGED <<repoVars, envVars, lockVars, planVars, quotaVars, callsLeft>>

(* ------------------------ services: SubmitAnswer ------------------------ *)

\* a check that knows the declining option of the welcome question only
processSpecialAnswers_WelcomeOnly(questionID, answerValues) ==
  IF questionID = "q_welcome" /\ contains(answerValues, NoNextTime)
  THEN "cancelled_welcome"
  ELSE NoError

\* processSpecialAnswers: the message of the declining answer, or NoError
\* when the answer is no declining one.  (The writes it makes are the steps
\* of SubmitAnswer_Cancel.)
processSpecialAnswers(questionID, answerValues) ==
  IF questionID = "q_welcome" /\ contains(answerValues, NoNextTime)
  THEN "cancelled_welcome"
  ELSE IF questionID = "q_privacy_consent" /\ contains(answerValues, IDoNotAgree)
       THEN "cancelled_privacy"
       ELSE NoError

\* Line 570: a required question given no value, or one blank value
MissingRequired(questionDef, answerValues) ==
  /\ questionDef.IsRequired
  /\ \/ Len(answerValues) = 0
     \/ (Len(answerValues) = 1 /\ TrimSpace(answerValues[1]) = <<>>)

\* Line 551: the first question submitted while CurrentQuestionID is empty
FirstWhileEmpty(assessment, questionID) ==
  assessment.CurrentQuestionID = "" /\ questionID = questions[1].ID

\* Lines 564-582: the definition lookup, the required check and
\* processSpecialAnswers: how the submission is taken, and the question and
\* error of a rejection.
ValidateAnswer(questionID, answerValues) ==
  IF questionID \notin DOMAIN questionsByID
  THEN [kind |-> "reject", question |-> NilQuestion, err |-> "invalid_question_id"]
  ELSE IF MissingRequired(questionsByID[questionID], answerValues)
  THEN [kind |-> "reject", question |-> questionID, err |-> "required"]
  ELSE IF processSpecialAnswers(questionID, answerValues) # NoError
  THEN [kind |-> "cancel", question |-> NilQuestion,
        err |-> processSpecialAnswers(questionID, answerValues)]
  ELSE [kind |-> "accept", question |-> NilQuestion, err |-> NoError]

\* a validation without the position check of lines 555-562
Validate_NoPositionCheck(cur, questionID, answerValues) ==
  ValidateAnswer(questionID, answerValues)

\* Lines 555-562 for a record whose CurrentQuestionID is cur by then: a
\* submission for another question is rejected with the current question's
\* definition, or with none when cur names no catalog question.
Validate(cur, questionID, answerValues) ==
  IF cur # questionID
  THEN IF cur \notin DOMAIN questionsByID
       THEN [kind |-> "reject", question |-> NilQuestion,
             err |-> "current_question_not_found"]
       ELSE [kind |-> "reject", question |-> questionsByID[cur].ID,
             err |-> "wrong_question"]
  ELSE ValidateAnswer(questionID, answerValues)

\* Lines 540-549: the lookup of the in-progress assessment.
SubmitAnswer_Lookup(p, userID, questionID, answerValues) ==
  /\ Admit(p)
  /\ LET found == GetUserAssessmentByUserID(userAssessments, userIndex, userID,
                                            AssessmentStatusInProgress)
     IN IF found = NilAssessment
        THEN /\ ret' = Returned("SubmitAnswer", userID, NilQuestion, NilAssessment,
                                "no_assessment_in_progress", <<>>, FALSE)
             /\ UNCHANGED call
        ELSE /\ call' = [call EXCEPT ![p] =
                  Frame("sa_validate", "SubmitAnswer", userID, questionID,
                        answerValues, found, NilQuestion, <<>>, FALSE)]
             /\ UNCHANGED ret
  /\ UNCHANGED <<repoVars, envVars, lockVars, planVars, quotaVars>>

\* Lines 551-576: the position check (which sets CurrentQuestionID when the
\* first question arrives while it is empty, line 553), the definition
\* lookup, the required check, and processSpecialAnswers, whose first write is
\* Status = cancelled (lines 653, 659).
SubmitAnswer_Validate(p) ==
  /\ call[p].pc = "sa_validate"
  /\ LET id == call[p].assessment
         a == userAssessments[id]
         first == FirstWhileEmpty(a, call[p].questionID)
         cur == IF first THEN call[p].questionID ELSE a.CurrentQuestionID
         v == Validate(cur, call[p].questionID, call[p].answerValues)
     IN /\ userAssessments' =
             [userAssessments EXCEPT
                ![id].CurrentQuestionID = cur,
                ![id].Status = IF v.kind = "cancel" THEN AssessmentStatusCancelled
                               ELSE @]
        /\ IF v.kind = "reject"
           THEN /\ ret' = Returned("SubmitAnswer", call[p].userID, v.question, id,
                                   v.err, <<>>, FALSE)
                /\ call' = [call EXCEPT ![p] = Idle]
           ELSE /\ call' = [call EXCEPT ![p].pc =
                              IF v.kind = "cancel" THEN "sa_cancel_current"
                              ELSE "sa_find"]
                /\ UNCHANGED ret
  /\ UNCHANGED <<userIndex, nextAssessmentID, envVars, lockVars, planVars, quotaVars, callsLeft>>

\* Lines 654/660 (CurrentQuestionID = ""), then lines 578-581: the update of
\* the cancelled record and the return of the declining message.
SubmitAnswer_Cancel(p) ==
  /\ call[p].pc \in {"sa_cancel_current", "sa_cancel_update"}
  /\ LET id == call[p].assessment
     IN IF call[p].pc = "sa_cancel_current"
        THEN /\ userAssessments' = [userAssessments EXCEPT ![id].CurrentQuestionID = ""]
             /\ call' = [call EXCEPT ![p].pc = "sa_cancel_update"]
             /\ UNCHANGED ret
        ELSE /\ userAssessments' =
                  IF id \in DOMAIN userAssessments
                  THEN [userAssessments EXCEPT ![id] = UpdatedRecord(@, @, clock)]
                  ELSE userAssessments
             /\ ret' = Returned("SubmitAnswer", call[p].userID, NilQuestion, id,
                                processSpecialAnswers(call[p].questionID,
                                                      call[p].answerValues),
                                <<>>, FALSE)
             /\ call' = [call EXCEPT ![p] = Idle]
  /\ UNCHANGED <<userIndex, nextAssessmentID, envVars, lockVars, planVars, quotaVars, callsLeft>>

\* index of the first answer to the question, 0 when there is none
AnswerIndex(answers, questionID) ==
  IF \E i \in 1..Len(answers) : answers[i].QuestionID = questionID
  THEN CHOOSE i \in 1..Len(answers) :
         /\ answers[i].QuestionID = questionID
         /\ \A j \in 1..(i - 1) : answers[j].QuestionID # questionID
  ELSE 0

\* Lines 584-597.  The search overwrites the answer it finds (line 587);
\* finding none, the call appends (line 593).  The append is a read of the
\* slice and a write of the grown slice with no lock held: the slice it grows
\* is the one stored by then or, when another call wrote the slice in
\* between, the one this call read.
SubmitAnswer_Upsert(p) ==
  /\ call[p].pc \in {"sa_find", "sa_append"}
  /\ LET id == call[p].assessment
         answers == userAssessments[id].Answers
         i == AnswerIndex(answers, call[p].questionID)
         entry == [QuestionID |-> call[p].questionID, Answer |-> call[p].answerValues]
     IN IF call[p].pc = "sa_find"
        THEN IF i # 0
             THEN /\ userAssessments' = [userAssessments EXCEPT ![id].Answers[i].Answer =
                                           call[p].answerValues]
                  /\ call' = [call EXCEPT ![p].pc = "sa_advance"]
             ELSE /\ call' = [call EXCEPT ![p].pc = "sa_append",
                                          ![p].seen = answers]
                  /\ UNCHANGED userAssessments
        ELSE /\ \E base \in {answers, call[p].seen} :
                  userAssessments' = [userAssessments EXCEPT ![id].Answers =
                                        Append(base, entry)]
             /\ call' = [call EXCEPT ![p].pc = "sa_advance", ![p].seen = <<>>]
  /\ UNCHANGED <<userIndex, nextAssessmentID, envVars, lockVars, planVars, quotaVars, callsLeft, ret>>

\* a check that takes every question for the last
HasNext_Never(i) == FALSE

\* Line 613: the question at position i is not the last of the catalog
HasNext(i) == i + 1 <= Len(questions)

\* Lines 599-623: the next question in catalog order becomes the current one
\* (line 616), or, after the last question, Status = completed (618),
\* CompletedAt = &now (620), CurrentQuestionID = "" (621).
SubmitAnswer_Advance(p) ==
  /\ call[p].pc \in {"sa_advance", "sa_completed_at", "sa_clear_current"}
  /\ LET id == call[p].assessment
         i == IndexInList(call[p].questionID)
     IN IF call[p].pc = "sa_advance"
        THEN IF i = 0
             THEN /\ ret' = Returned("SubmitAnswer", call[p].userID, NilQuestion, id,
                                     "internal_error", <<>>, FALSE)
                  /\ call' = [call EXCEPT ![p] = Idle]
                  /\ UNCHANGED userAssessments
             ELSE IF HasNext(i)
             THEN /\ userAssessments' = [userAssessments EXCEPT
                                           ![id].CurrentQuestionID = questions[i + 1].ID]
                  /\ call' = [call EXCEPT ![p].pc = "sa_update",
                                          ![p].nextQuestionToShow = questions[i + 1].ID]
                  /\ UNCHANGED ret
             ELSE /\ userAssessments' = [userAssessments EXCEPT
                                           ![id].Status = AssessmentStatusCompleted]
                  /\ call' = [call EXCEPT ![p].pc = "sa_completed_at"]
                  /\ UNCHANGED ret
        ELSE IF call[p].pc = "sa_completed_at"
        THEN /\ userAssessments' = [userAssessments EXCEPT ![id].CompletedAt = clock]
             /\ call' = [call EXCEPT ![p].pc = "sa_clear_current"]
             /\ UNCHANGED ret
        ELSE /\ userAssessments' = [userAssessments EXCEPT ![id].CurrentQuestionID = ""]
             /\ call' = [call EXCEPT ![p].pc = "sa_update"]
             /\ UNCHANGED ret
  /\ UNCHANGED <<userIndex, nextAssessmentID, envVars, lockVars, planVars, quotaVars, callsLeft>>

\* Lines 628-633 with UpdateUserAssessment (repository lines 132-151).
SubmitAnswer_Update(p) ==
  /\ call[p].pc = "sa_update"
  /\ LET id == call[p].assessment
     IN IF id \in DOMAIN userAssessments
        THEN /\ userAssessments' = [userAssessments EXCEPT ![id] =
                                      UpdatedRecord(@, @, clock)]
             /\ call' = [call EXCEPT ![p].pc = "sa_return"]
             /\ UNCHANGED ret
        ELSE /\ ret' = Returned("SubmitAnswer", call[p].userID, call[p].questionID,
                                id, "update_failed", <<>>, FALSE)
             /\ call' = [call EXCEPT ![p] = Idle]
             /\ UNCHANGED userAssessments
  /\ UNCHANGED <<userIndex, nextAssessmentID, envVars, lockVars, planVars, quotaVars, callsLeft>>

\* Lines 635-646: the return, decided by the status the record has by then.
SubmitAnswer_Return(p) ==
  /\ call[p].pc = "sa_return"
  /\ LET id == call[p].assessment
         a == userAssessments[id]
         terminal == IsTerminal(a.Status)
         next == call[p].nextQuestionToShow
     IN ret' = Returned("SubmitAnswer", call[p].userID,
                        IF terminal THEN NilQuestion ELSE next, id,
                        IF ~terminal /\ next = NilQuestion
                        THEN "failed_next_question" ELSE NoError,
                        <<>>, FALSE)
  /\ call' = [call EXCEPT ![p] = Idle]
  /\ UNCHANGED <<repoVars, envVars, lockVars, planVars, quotaVars, callsLeft>>

(* --------------------- services: GetAssessmentResult -------------------- *)

\* Lines 668-687: the lookup of the user's completed assessment; the call
\* returns the record found, or nil and no error when there is none.
GetAssessmentResult(p, userID) ==
  /\ Admit(p)
  /\ ret' = IF userID = ""
            THEN Returned("GetAssessmentResult", userID, NilQuestion, NilAssessment,
                          "user_id_empty", <<>>, FALSE)
            ELSE Returned("GetAssessmentResult", userID, NilQuestion,
                          GetUserAssessmentByUserID(userAssessments, userIndex, userID,
                                                    AssessmentStatusCompleted),
                          NoError, <<>>, FALSE)
  /\ UNCHANGED <<repoVars, envVars, lockVars, planVars, quotaVars, call>>


(* ----------------------- scheduler: schedulerService -------------------- *)

ProfileAssessmentAgentID == "hs_profile_assessment_agent"

\* the router persona, which never answers the user itself
RouterID == "ai0"

\* the persona that answers when no persona scores
fallbackAgentID == "hs_empathy_agent"

maxResponders == 1

\* config.LLMCharacter values of the deployment: the router, the assessor,
\* the empathy persona and the knowledge persona, with their display names
\* (sequences of characters) and tags
LLMCharacters ==
  [ai0 |-> [ID |-> RouterID, Name |-> <<"R", "o">>, Tags |-> <<>>],
   assessor |-> [ID |-> ProfileAssessmentAgentID, Name |-> <<"A", "s">>,
                 Tags |-> <<"health_assessment">>],
   empathy |-> [ID |-> fallbackAgentID, Name |-> <<"S", "i", "s">>,
                Tags |-> <<"emotional_support">>],
   knowledge |-> [ID |-> "hs_knowledge_expert_agent", Name |-> <<"P", "o", "p">>,
                  Tags |-> <<"knowledge">>]]

containsTag(tags, tag) == \E i \in 1..Len(tags) : tags[i] = tag

\* the last limit messages of the history
getRecentHistory(history, limit) ==
  IF Len(history) <= limit THEN history
  ELSE SubSeq(history, Len(history) - limit + 1, Len(history))

\* Lines 441-445: the loop over matchedTags, 3 for each one the persona
\* carries
RECURSIVE TagScore(_, _)
TagScore(aiTags, matchedTags) ==
  IF matchedTags = <<>> THEN 0
  ELSE (IF containsTag(aiTags, Head(matchedTags)) THEN 3 ELSE 0)
       + TagScore(aiTags, Tail(matchedTags))

\* a name check that tells capitals from small letters
NameScore_CaseSensitive(message, name) ==
  IF Contains(message, name) \/ Contains(message, <<"@">> \o name)
  THEN 5 ELSE 0

\* Lines 448-450: 5 when the lower-cased message contains the lower-cased
\* name, or "@" followed by it
NameScore(message, name) ==
  LET messageLower == ToLower(message)
  IN IF \/ Contains(messageLower, ToLower(name))
        \/ Contains(messageLower, <<"@">> \o ToLower(name))
     THEN 5 ELSE 0

\* Lines 454-459: the loop over the recent history, which adds 1 at the
\* first message of the persona's name that has content, and stops
RECURSIVE HistoryScore(_, _)
HistoryScore(recentHistory, name) ==
  IF recentHistory = <<>> THEN 0
  ELSE IF Head(recentHistory).Name = name /\ Len(Head(recentHistory).Content) > 0
       THEN 1
       ELSE HistoryScore(Tail(recentHistory), name)

\* Lines 439-459: the score one persona gets
Score(ai, matchedTags, message, history) ==
  TagScore(ai.Tags, matchedTags)
  + NameScore(message, ai.Name)
  + HistoryScore(getRecentHistory(history, 3), ai.Name)

\* a scoring loop that does not skip the router
RECURSIVE ScoreLoop_WithRouter(_, _, _, _, _, _)
ScoreLoop_WithRouter(availableAIs, i, matchedTags, message, history, aiScores) ==
  IF i > Len(availableAIs) THEN aiScores
  ELSE LET ai == availableAIs[i]
           score == Score(ai, matchedTags, message, history)
           next == IF score > 0
                   THEN [id \in DOMAIN aiScores \cup {ai.ID} |->
                           IF id = ai.ID THEN score ELSE aiScores[id]]
                   ELSE aiScores
       IN ScoreLoop_WithRouter(availableAIs, i + 1, matchedTags, message, history, next)

\* the aiScores map after the scoring loop has gone through availableAIs[i..]
RECURSIVE ScoreLoop(_, _, _, _, _, _)
ScoreLoop(availableAIs, i, matchedTags, message, history, aiScores) ==
  IF i > Len(availableAIs) THEN aiScores
  ELSE LET ai == availableAIs[i]
           score == Score(ai, matchedTags, message, history)
           next == IF ai.ID # RouterID /\ score > 0
                   THEN [id \in DOMAIN aiScores \cup {ai.ID} |->
                           IF id = ai.ID THEN score ELSE aiScores[id]]
                   ELSE aiScores
       IN ScoreLoop(availableAIs, i + 1, matchedTags, message, history, next)

\* a sort by ascending score
sortAIsByScore_Ascending(aiScores) ==
  LET n == Cardinality(DOMAIN aiScores)
  IN {sorted \in [1..n -> DOMAIN aiScores] :
        /\ \A i, j \in 1..n : i # j => sorted[i] # sorted[j]
        /\ \A i, j \in 1..n : i < j => aiScores[sorted[i]] <= aiScores[sorted[j]]}

\* what sortAIsByScore may return: the ids of the map in some order of
\* descending score (the order of ids with equal scores is not fixed)
sortAIsByScore(aiScores) ==
  LET n == Cardinality(DOMAIN aiScores)
  IN {sorted \in [1..n -> DOMAIN aiScores] :
        /\ \A i, j \in 1..n : i # j => sorted[i] # sorted[j]
        /\ \A i, j \in 1..n : i < j => aiScores[sorted[i]] >= aiScores[sorted[j]]}

IsAvailable(availableAIs, id) == \E i \in 1..Len(availableAIs) : availableAIs[i].ID = id

\* whether the scheduler finds the user inside an assessment
InAssessment(userID) ==
  /\ userID # ""
  /\ GetUserAssessmentByUserID(userAssessments, userIndex, userID,
                               AssessmentStatusInProgress) # NilAssessment

\* a general scheduling that reports an error when no persona scored and
\* the fallback persona is not available
GeneralOutcomes_ErrorWithoutFallback(message, history, availableAIs, analysis) ==
  LET matchedTags == IF analysis.failed THEN <<>> ELSE analysis.tags
      aiScores == ScoreLoop(availableAIs, 1, matchedTags, message, history, <<>>)
  IN IF DOMAIN aiScores = {}
     THEN {IF IsAvailable(availableAIs, fallbackAgentID)
           THEN [selected |-> <<fallbackAgentID>>, nilList |-> FALSE,
                 err |-> NoError, analyzed |-> TRUE]
           ELSE [selected |-> <<>>, nilList |-> FALSE,
                 err |-> "no_ai_available", analyzed |-> TRUE]}
     ELSE {[selected |-> SubSeq(sortedAIs, 1, maxResponders),
            nilList |-> FALSE, err |-> NoError, analyzed |-> TRUE] :
             sortedAIs \in sortAIsByScore(aiScores)}

\* Lines 393-517: what the general scheduling may return, the tag classifier
\* answering analysis: records (selected, nilList, err, analyzed), nilList
\* telling the nil slice from the empty one
GeneralOutcomes(message, history, availableAIs, analysis) ==
  LET matchedTags == IF analysis.failed THEN <<>> ELSE analysis.tags
      aiScores == ScoreLoop(availableAIs, 1, matchedTags, message, history, <<>>)
  IN IF DOMAIN aiScores = {}
     THEN {[selected |-> IF IsAvailable(availableAIs, fallbackAgentID)
                         THEN <<fallbackAgentID>> ELSE <<>>,
            nilList |-> FALSE, err |-> NoError, analyzed |-> TRUE]}
     ELSE {[selected |-> IF Len(sortedAIs) > maxResponders
                         THEN SubSeq(sortedAIs, 1, maxResponders)
                         ELSE sortedAIs,
            nilList |-> FALSE, err |-> NoError, analyzed |-> TRUE] :
             sortedAIs \in sortAIsByScore(aiScores)}

\* a scheduler without lines 369-391: the user's assessment is not looked at
ScheduleOutcomes_NoOverride(userID, message, history, availableAIs, analysis) ==
  GeneralOutcomes(message, history, availableAIs, analysis)

\* a scheduler that goes on to the general scheduling when the user is
\* inside an assessment and the assessment persona is not available
ScheduleOutcomes_FallThrough(userID, message, history, availableAIs, analysis) ==
  IF InAssessment(userID) /\ IsAvailable(availableAIs, ProfileAssessmentAgentID)
  THEN {[selected |-> <<ProfileAssessmentAgentID>>, nilList |-> FALSE,
         err |-> NoError, analyzed |-> FALSE]}
  ELSE GeneralOutcomes(message, history, availableAIs, analysis)

\* Lines 369-391, then the general scheduling: what ScheduleAIResponses may
\* return for its arguments
ScheduleOutcomes(userID, message, history, availableAIs, analysis) ==
  IF InAssessment(userID)
  THEN IF IsAvailable(availableAIs, ProfileAssessmentAgentID)
       THEN {[selected |-> <<ProfileAssessmentAgentID>>, nilList |-> FALSE,
              err |-> NoError, analyzed |-> FALSE]}
       ELSE {[selected |-> <<>>, nilList |-> TRUE,
              err |-> "assessment_agent_unavailable", analyzed |-> FALSE]}
  ELSE GeneralOutcomes(message, history, availableAIs, analysis)

\* ScheduleAIResponses(userID, message, history, availableAIs), the tag
\* classifier answering analysis
ScheduleAIResponses(p, userID, message, history, availableAIs, analysis) ==
  /\ Admit(p)
  /\ \E out \in ScheduleOutcomes(userID, message, history, availableAIs, analysis) :
       ret' = [Returned("ScheduleAIResponses", userID, NilQuestion, NilAssessment,
                        out.err, out.selected, out.analyzed)
                 EXCEPT !.nilList = out.nilList]
  /\ UNCHANGED <<repoVars, envVars, lockVars, planVars, quotaVars, call>>

\* the scheduling requests that arrive: (message, history, availableAIs,
\* analysis)
AllAIs == <<LLMCharacters.ai0, LLMCharacters.assessor, LLMCharacters.empathy,
            LLMCharacters.knowledge>>

NoTags == [failed |-> FALSE, tags |-> <<>>]

Said(name, content) == [Name |-> name, Content |-> content]

\* a router persona that was given a tag of its own
TaggedRouter == [ID |-> RouterID, Name |-> <<"R", "o">>, Tags |-> <<"knowledge">>]

\* messages: one that names the knowledge persona in capitals, one that
\* addresses it with "@", one that holds only the start of its name, one that
\* names the router, one that names the empathy persona
MsgPopUpper == <<"h", "i", " ", "P", "O", "P">>
MsgAtPop == <<"@", "p", "o", "p">>
MsgPo == <<"p", "o">>
MsgRo == <<"r", "o">>
MsgSis == <<"s", "i", "s">>

Tags(tags) == [failed |-> FALSE, tags |-> tags]

ScheduleInputs ==
  {<<<<>>, <<>>, availableAIs, NoTags>> :
     availableAIs \in {AllAIs, <<>>, <<LLMCharacters.ai0>>,
                       <<LLMCharacters.ai0, LLMCharacters.empathy, LLMCharacters.knowledge>>,
                       <<LLMCharacters.ai0, LLMCharacters.assessor, LLMCharacters.knowledge>>}}
  \cup {<<<<>>, <<>>, AllAIs, analysis>> :
          analysis \in {[failed |-> TRUE, tags |-> <<>>],
                        Tags(<<"knowledge">>),
                        Tags(<<"emotional_support", "knowledge">>),
                        Tags(<<"knowledge", "knowledge">>),
                        Tags(<<"unknown_tag">>)}}
  \cup {<<<<>>, <<>>, <<LLMCharacters.ai0, LLMCharacters.assessor, LLMCharacters.knowledge>>,
          [failed |-> TRUE, tags |-> <<>>]>>}
  \cup {<<message, <<>>, AllAIs, NoTags>> :
          message \in {MsgPopUpper, MsgAtPop, MsgPo, MsgRo}}
  \cup {<<MsgSis, <<>>, AllAIs, Tags(<<"knowledge">>)>>}
  \cup {<<<<>>, history, AllAIs, NoTags>> :
          history \in {<<Said(<<"P", "o", "p">>, <<"x">>)>>,
                       <<Said(<<"P", "o", "p">>, <<>>)>>,
                       <<Said(<<"p", "o", "p">>, <<"x">>)>>,
                       <<Said(<<"P", "o", "p">>, <<"x">>), Said(<<"P", "o", "p">>, <<"y">>)>>,
                       <<Said(<<"P", "o", "p">>, <<"x">>), Said(<<"u">>, <<"a">>),
                         Said(<<"S", "i", "s">>, <<"b">>), Said(<<"u">>, <<"c">>)>>}}
  \cup {<<MsgRo, <<>>, <<TaggedRouter>>, Tags(<<"knowledge">>)>>,
        <<MsgRo, <<>>, <<TaggedRouter, LLMCharacters.assessor>>,
          Tags(<<"knowledge", "health_assessment">>)>>}

\* The (questionID, answerValues) pairs the callers submit: an ordinary answer
\* to every catalog question, the declining options at the two questions that
\* act on them and at questions that do not, missing and blank values, and
\* ids that are not in the catalog.
SubmitInputs ==
  {<<q, <<Yes>>>> : q \in QuestionIDs \cup {"", "q_unknown"}}
  \cup {<<"q_welcome", v>> : v \in {<<NoNextTime>>, <<IDoNotAgree>>, <<>>, << <<" ">> >>,
                                   <<Yes, NoNextTime>>}}
  \cup {<<"q_age_group", v>> : v \in {<<NoNextTime>>, << <<>> >>}}
  \cup {<<"q_privacy_consent", v>> : v \in {<<IDoNotAgree>>, <<NoNextTime>>}}

Next ==
  \/ Tick
  \/ \E p \in Procs, u \in clients \cup {""} : StartOrContinueAssessment_Lookup(p, u)
  \/ \E p \in Procs : StartOrContinueAssessment_Create(p)
  \/ \E p \in Procs : StartOrContinueAssessment_Decide(p)
  \/ \E p \in Procs : StartOrContinueAssessment_Write(p)
  \/ \E p \in Procs : StartOrContinueAssessment_Update(p)
  \/ \E p \in Procs : StartOrContinueAssessment_Return(p)
  \/ \E p \in Procs, u \in clients, in \in SubmitInputs :
       SubmitAnswer_Lookup(p, u, in[1], in[2])
  \/ \E p \in Procs : SubmitAnswer_Validate(p)
  \/ \E p \in Procs : SubmitAnswer_Cancel(p)
  \/ \E p \in Procs : SubmitAnswer_Upsert(p)
  \/ \E p \in Procs : SubmitAnswer_Advance(p)
  \/ \E p \in Procs : SubmitAnswer_Update(p)
  \/ \E p \in Procs : SubmitAnswer_Return(p)
  \/ \E p \in Procs, u \in clients \cup {""}, in \in ScheduleInputs :
       ScheduleAIResponses(p, u, in[1], in[2], in[3], in[4])
  \/ \E p \in Procs, u \in clients \cup {""} : GetAssessmentResult(p, u)

Spec == Init /\ [][Next]_vars

SpecSeq == InitSeq /\ [][Next]_vars

SpecSched == InitSched /\ [][Next]_vars

SpecResult == InitResult /\ [][Next]_vars

(* ------------- repository: the store called by its callers ------------- *)

\* A goroutine calls a method of the store: it is inside none and the run has
\* calls left.
StoreAdmit(p) ==
  /\ p \in goroutines
  /\ repoCall[p].pc = "idle"
  /\ callsLeft > 0
  /\ callsLeft' = callsLeft - 1

\* The records a caller builds and hands to CreateUserAssessment: of a user
\* or of none, without a Status, with or without a StartedAt of its own.
BuiltAssessments ==
  {[NewAssessment(u, t) EXCEPT !.Status = ""] :
     u \in {"u1", ""}, t \in {NilTime, MaxClock}}

\* The records a caller builds and hands to UpdateUserAssessment: they carry
\* the ID of a record (stored or not) and a UserID, StartedAt and CreatedAt
\* of the caller's choice.
UpdateArguments ==
  {[NewAssessment(u, t) EXCEPT !.ID = id, !.CreatedAt = t,
                               !.Status = AssessmentStatusCompleted] :
     id \in 1..(MaxAssessments + 1), u \in Users, t \in {MaxClock}}

\* the fields of a record a caller writes through the pointer it holds
WrittenFields == {"UserID", "StartedAt", "CreatedAt"}

\* the record after the caller's write of one field: another user, a later
\* time
Written(object, field) ==
  CASE field = "UserID" ->
         [object EXCEPT !.UserID = IF @ = "u1" THEN "u2" ELSE "u1"]
    [] field = "StartedAt" -> [object EXCEPT !.StartedAt = @ + 1]
    [] OTHER -> [object EXCEPT !.CreatedAt = @ + 1]

\* A caller writes a field of the record its pointer points at; no lock of
\* the store is involved.
WriteThroughPointer(p, field) ==
  /\ StoreAdmit(p)
  /\ repoCall[p].held.kind # "nil"
  /\ IF repoCall[p].held.kind = "stored"
     THEN /\ userAssessments' =
               [userAssessments EXCEPT ![repoCall[p].held.id] = Written(@, field)]
          /\ UNCHANGED repoCall
     ELSE /\ repoCall' = [repoCall EXCEPT ![p].held.object = Written(@, field)]
          /\ UNCHANGED userAssessments
  /\ UNCHANGED <<userIndex, nextAssessmentID, envVars, call, ret, muAssessments, planVars, quotaVars>>

\* CreateUserAssessment, line 39: r.muAssessments.Lock() returns.
CreateUserAssessment_Lock(p, built) ==
  /\ StoreAdmit(p)
  /\ nextAssessmentID <= MaxAssessments
  /\ CanLock(muAssessments)
  /\ muAssessments' = [muAssessments EXCEPT !.writer = TRUE]
  /\ repoCall' = [repoCall EXCEPT ![p].pc = "create",
                                  ![p].assessment = OwnPointer(built)]
  /\ UNCHANGED <<repoVars, envVars, call, ret, planVars, quotaVars>>

\* CreateUserAssessment, lines 42-63 and the deferred Unlock of line 40.
CreateUserAssessment_Body(p) ==
  /\ repoCall[p].pc = "create"
  /\ LET assessment == Deref(userAssessments, repoCall[p].assessment)
         id == nextAssessmentID
         rec == CreatedRecord(assessment, id, clock)
     IN IF assessment.UserID = ""
        THEN /\ repoCall' = [repoCall EXCEPT ![p] =
                  RepoFrame("idle", NilPointer, "", "", NilPointer,
                            "CreateUserAssessment", assessment, "user_id_empty")]
             /\ UNCHANGED repoVars
        ELSE /\ userAssessments' = Append(userAssessments, rec)
             /\ userIndex' = [userIndex EXCEPT ![rec.UserID] = Append(@, id)]
             /\ nextAssessmentID' = id + 1
             /\ repoCall' = [repoCall EXCEPT ![p] =
                  RepoFrame("idle", NilPointer, "", "", StoredPointer(id),
                            "CreateUserAssessment", assessment, NoError)]
  /\ muAssessments' = [muAssessments EXCEPT !.writer = FALSE]
  /\ UNCHANGED <<envVars, callsLeft, call, ret, planVars, quotaVars>>

\* GetUserAssessmentByID, line 68: r.muAssessments.RLock() returns.
GetUserAssessmentByID_RLock(p, id) ==
  /\ StoreAdmit(p)
  /\ CanRLock(muAssessments)
  /\ muAssessments' = [muAssessments EXCEPT !.readers = @ + 1]
  /\ repoCall' = [repoCall EXCEPT ![p].pc = "get_by_id",
                                  ![p].assessment = StoredPointer(id)]
  /\ UNCHANGED <<repoVars, envVars, call, ret, planVars, quotaVars>>

\* GetUserAssessmentByID, lines 71-77 and the deferred RUnlock of line 69.
GetUserAssessmentByID_Body(p) ==
  /\ repoCall[p].pc = "get_by_id"
  /\ LET id == repoCall[p].assessment.id
         exists == id \in DOMAIN userAssessments
     IN repoCall' = [repoCall EXCEPT ![p] =
          RepoFrame("idle", NilPointer, "", "",
                    IF exists THEN StoredPointer(id) ELSE NilPointer,
                    "GetUserAssessmentByID", NilPointer.object,
                    IF exists THEN NoError ELSE "not_found")]
  /\ muAssessments' = [muAssessments EXCEPT !.readers = @ - 1]
  /\ UNCHANGED <<repoVars, envVars, callsLeft, call, ret, planVars, quotaVars>>

\* GetUserAssessmentByUserID, line 82: r.muAssessments.RLock() returns.
GetUserAssessmentByUserID_RLock(p, userID, statusFilter) ==
  /\ StoreAdmit(p)
  /\ CanRLock(muAssessments)
  /\ muAssessments' = [muAssessments EXCEPT !.readers = @ + 1]
  /\ repoCall' = [repoCall EXCEPT ![p].pc = "get_by_user",
                                  ![p].userID = userID,
                                  ![p].statusFilter = statusFilter]
  /\ UNCHANGED <<repoVars, envVars, call, ret, planVars, quotaVars>>

\* GetUserAssessmentByUserID, lines 85-128 and the deferred RUnlock of line 83.
GetUserAssessmentByUserID_Body(p) ==
  /\ repoCall[p].pc = "get_by_user"
  /\ LET found == GetUserAssessmentByUserID(userAssessments, userIndex,
                                            repoCall[p].userID,
                                            repoCall[p].statusFilter)
     IN repoCall' = [repoCall EXCEPT ![p] =
          RepoFrame("idle", NilPointer, "", "",
                    IF found = NilAssessment THEN NilPointer ELSE StoredPointer(found),
                    "GetUserAssessmentByUserID", NilPointer.object, NoError)]
  /\ muAssessments' = [muAssessments EXCEPT !.readers = @ - 1]
  /\ UNCHANGED <<repoVars, envVars, callsLeft, call, ret, planVars, quotaVars>>

\* the pointers a goroutine hands to UpdateUserAssessment: the one it holds
\* (returned by a lookup, a create or an update) or a record it builds
UpdatePointers(p) ==
  {OwnPointer(a) : a \in UpdateArguments}
  \cup (IF repoCall[p].held.kind = "nil" THEN {} ELSE {repoCall[p].held})

\* UpdateUserAssessment, line 133: r.muAssessments.Lock() returns.
UpdateUserAssessment_Lock(p, pointer) ==
  /\ StoreAdmit(p)
  /\ CanLock(muAssessments)
  /\ muAssessments' = [muAssessments EXCEPT !.writer = TRUE]
  /\ repoCall' = [repoCall EXCEPT ![p].pc = "update", ![p].assessment = pointer]
  /\ UNCHANGED <<repoVars, envVars, call, ret, planVars, quotaVars>>

\* The pointers of the goroutines after p's pointer became the one stored
\* under id: a goroutine that held the record stored so far holds a record
\* the store no longer keeps.
AfterReplace(p, id, pointer, original, err) ==
  [q \in Procs |->
     IF q = p
     THEN RepoFrame("idle", NilPointer, "", "", StoredPointer(id),
                    "UpdateUserAssessment", Deref(userAssessments, pointer), err)
     ELSE IF pointer.kind = "own" /\ repoCall[q].held = StoredPointer(id)
     THEN [repoCall[q] EXCEPT !.held = OwnPointer(original)]
     ELSE repoCall[q]]

\* UpdateUserAssessment, lines 136-150 and the deferred Unlock of line 134.
UpdateUserAssessment_Body(p) ==
  /\ repoCall[p].pc = "update"
  /\ LET pointer == repoCall[p].assessment
         assessment == Deref(userAssessments, pointer)
         id == assessment.ID
     IN IF id \notin DOMAIN userAssessments
        THEN /\ repoCall' = [repoCall EXCEPT ![p] =
                  RepoFrame("idle", NilPointer, "", "", NilPointer,
                            "UpdateUserAssessment", assessment, "not_found")]
             /\ UNCHANGED userAssessments
        ELSE /\ userAssessments' =
                  [userAssessments EXCEPT ![id] =
                     UpdatedRecord(userAssessments[id], assessment, clock)]
             /\ repoCall' = AfterReplace(p, id, pointer, userAssessments[id], NoError)
  /\ muAssessments' = [muAssessments EXCEPT !.writer = FALSE]
  /\ UNCHANGED <<userIndex, nextAssessmentID, envVars, callsLeft, call, ret, planVars, quotaVars>>

\* Time passes while a call is about to read time.Now() under the write lock.
StoreTick ==
  /\ clock < MaxClock
  /\ \E p \in goroutines : repoCall[p].pc \in {"create", "update"}
  /\ clock' = clock + 1
  /\ UNCHANGED <<repoVars, goroutines, clients, callsLeft, call, ret, lockVars, planVars, quotaVars>>

\* a goroutine that holds the record an earlier lookup of its returned
Holding(id) ==
  [NoRepoCall EXCEPT !.held = StoredPointer(id), !.op = "GetUserAssessmentByID"]

\* The callers of the store running side by side, for MaxStoreCalls calls and
\* writes, on a store that is empty or holds one record, which earlier
\* lookups of the goroutines may have returned.
InitStore ==
  /\ \/ /\ EmptyStore
        /\ repoCall = [p \in Procs |-> NoRepoCall]
     \/ /\ StoreWith(AssessmentAt("u1", 0, 1))
        /\ repoCall \in [Procs -> {NoRepoCall, Holding(1)}]
  /\ clock = 1
  /\ goroutines = Procs
  /\ clients = Users
  /\ callsLeft = MaxStoreCalls
  /\ call = [p \in Procs |-> Idle]
  /\ ret = NoReturn
  /\ muAssessments = Unlocked
  /\ PlanServiceIdle
  /\ ChatHandlerIdle

NextStore ==
  \/ StoreTick
  \/ \E p \in Procs, field \in WrittenFields : WriteThroughPointer(p, field)
  \/ \E p \in Procs, built \in BuiltAssessments : CreateUserAssessment_Lock(p, built)
  \/ \E p \in Procs : CreateUserAssessment_Body(p)
  \/ \E p \in Procs, id \in 1..(MaxAssessments + 1) : GetUserAssessmentByID_RLock(p, id)
  \/ \E p \in Procs : GetUserAssessmentByID_Body(p)
  \/ \E p \in Procs, u \in clients \cup {""},
        statusFilter \in {"", AssessmentStatusCompleted} :
       GetUserAssessmentByUserID_RLock(p, u, statusFilter)
  \/ \E p \in Procs : GetUserAssessmentByUserID_Body(p)
  \/ \E p \in Procs : \E pointer \in UpdatePointers(p) :
       UpdateUserAssessment_Lock(p, pointer)
  \/ \E p \in Procs : UpdateUserAssessment_Body(p)

SpecStore == InitStore /\ [][NextStore]_vars

(* ------------------------ services: planService ------------------------ *)

\* A goroutine calls the plan service: it is inside no call of it and the run
\* has calls left.
PlanAdmit(p) ==
  /\ p \in goroutines
  /\ planCall[p].pc = "idle"
  /\ callsLeft > 0
  /\ callsLeft' = callsLeft - 1

\* a check that lets every caller pass
Authorized_Anyone(task, userID) == TRUE

\* plan.UserID != userID fails (lines 165, 218); the plan exists
Authorized(task, userID) == plans[task.PlanID] = userID

\* a completion that leaves IsCompleted as it is
CompletedTask_StatusOnly(task, now) ==
  [task EXCEPT !.Status = TaskStatusCompleted, !.CompletedAt = NullTime(now, TRUE)]

\* Lines 175-179: the task as MarkTaskCompleted changes it.
CompletedTask(task, now) ==
  [task EXCEPT !.Status = TaskStatusCompleted,
               !.IsCompleted = TRUE,
               !.CompletedAt = NullTime(now, TRUE)]

\* Lines 232-234: the task as MarkTaskSkipped changes it (CompletedAt.Time
\* stays).
SkippedTask(task) ==
  [task EXCEPT !.Status = TaskStatusSkipped,
               !.IsCompleted = FALSE,
               !.CompletedAt.Valid = FALSE]

\* GetTaskByID of lines 143-152 and 196-205: a copy of the row, or the error
\* of the task not found.
GetTask(p, op, taskID, userID) ==
  /\ PlanAdmit(p)
  /\ IF taskID \in DOMAIN planTasks
     THEN /\ planCall' = [planCall EXCEPT ![p] =
               PlanFrame("check", op, taskID, userID, planTasks[taskID])]
          /\ UNCHANGED planRet
     ELSE /\ planRet' = PlanReturned(op, taskID, userID, NilTask, "task_not_found")
          /\ UNCHANGED planCall
  /\ UNCHANGED <<planTasks, repoVars, envVars, call, ret, lockVars, quotaVars>>

\* GetPlanByID and the checks both calls make alike (lines 154-168, 207-221):
\* the error the call returns, or NoError
PlanCheck(task, userID) ==
  IF task.PlanID \notin DOMAIN plans THEN "plan_not_found"
  ELSE IF ~Authorized(task, userID) THEN "unauthorized"
  ELSE NoError

\* Lines 207-234 of MarkTaskSkipped: the return it makes at once, or the task
\* it goes on to update.
SkipOutcome(task, userID) ==
  IF PlanCheck(task, userID) # NoError
  THEN [kind |-> "return", task |-> NilTask, err |-> PlanCheck(task, userID)]
  ELSE IF task.Status = TaskStatusSkipped
  THEN [kind |-> "return", task |-> task, err |-> NoError]
  ELSE IF task.Status = TaskStatusCompleted
  THEN [kind |-> "return", task |-> NilTask, err |-> "cannot_skip_completed"]
  ELSE [kind |-> "update", task |-> SkippedTask(task), err |-> NoError]

\* Lines 154-179 of MarkTaskCompleted: the return it makes at once, or the
\* task it goes on to update.
CompleteOutcome(task, userID, now) ==
  IF PlanCheck(task, userID) # NoError
  THEN [kind |-> "return", task |-> NilTask, err |-> PlanCheck(task, userID)]
  ELSE IF task.Status = TaskStatusCompleted
  THEN [kind |-> "return", task |-> task, err |-> NoError]
  ELSE [kind |-> "update", task |-> CompletedTask(task, now), err |-> NoError]

\* the step of a call after GetTaskByID, up to its update
PlanDecide(p, out) ==
  /\ IF out.kind = "return"
     THEN /\ planRet' = PlanReturned(planCall[p].op, planCall[p].taskID,
                                     planCall[p].userID, out.task, out.err)
          /\ planCall' = [planCall EXCEPT ![p] = PlanIdle]
     ELSE /\ planCall' = [planCall EXCEPT ![p].pc = "update", ![p].task = out.task]
          /\ UNCHANGED planRet
  /\ UNCHANGED <<planTasks, repoVars, envVars, callsLeft, call, ret, lockVars, quotaVars>>

\* UpdatePlanTask (repository): db.Save writes every column of the row; the
\* call then returns the task (lines 182-190, 236-243).
PlanUpdate(p) ==
  /\ planCall[p].pc = "update"
  /\ planTasks' = [planTasks EXCEPT ![planCall[p].task.ID] = planCall[p].task]
  /\ planRet' = PlanReturned(planCall[p].op, planCall[p].taskID, planCall[p].userID,
                             planCall[p].task, NoError)
  /\ planCall' = [planCall EXCEPT ![p] = PlanIdle]
  /\ UNCHANGED <<repoVars, envVars, callsLeft, call, ret, lockVars, quotaVars>>

\* MarkTaskCompleted, lines 143-152.
MarkTaskCompleted_GetTask(p, taskID, userID) ==
  GetTask(p, "MarkTaskCompleted", taskID, userID)

\* MarkTaskCompleted, lines 154-179.
MarkTaskCompleted_Check(p) ==
  /\ planCall[p].pc = "check"
  /\ planCall[p].op = "MarkTaskCompleted"
  /\ PlanDecide(p, CompleteOutcome(planCall[p].task, planCall[p].userID, clock))

\* MarkTaskCompleted, lines 182-190.
MarkTaskCompleted_Update(p) ==
  /\ planCall[p].op = "MarkTaskCompleted"
  /\ PlanUpdate(p)

\* MarkTaskSkipped, lines 196-205.
MarkTaskSkipped_GetTask(p, taskID, userID) ==
  GetTask(p, "MarkTaskSkipped", taskID, userID)

\* MarkTaskSkipped, lines 207-234.
MarkTaskSkipped_Check(p) ==
  /\ planCall[p].pc = "check"
  /\ planCall[p].op = "MarkTaskSkipped"
  /\ PlanDecide(p, SkipOutcome(planCall[p].task, planCall[p].userID))

\* MarkTaskSkipped, lines 236-243.
MarkTaskSkipped_Update(p) ==
  /\ planCall[p].op = "MarkTaskSkipped"
  /\ PlanUpdate(p)

\* Time passes before MarkTaskCompleted reads time.Now() (line 177).
PlanTick ==
  /\ clock < MaxClock
  /\ \E p \in goroutines :
       planCall[p].pc = "check" /\ planCall[p].op = "MarkTaskCompleted"
  /\ clock' = clock + 1
  /\ UNCHANGED <<repoVars, goroutines, clients, callsLeft, call, ret, lockVars,
                 planVars, quotaVars>>

\* The plan service serving the requests of the users side by side, for
\* MaxPlanCalls calls, on the tasks as generated or with a task that an
\* earlier call has completed.
InitPlan ==
  /\ EmptyStore
  /\ clock = 1
  /\ goroutines = Procs
  /\ clients = Users
  /\ callsLeft = MaxPlanCalls
  /\ call = [p \in Procs |-> Idle]
  /\ ret = NoReturn
  /\ muAssessments = Unlocked
  /\ repoCall = [p \in Procs |-> NoRepoCall]
  /\ planTasks \in {GeneratedTasks,
                    [GeneratedTasks EXCEPT ![2] = CompletedTask(@, 1)]}
  /\ planCall = [p \in Procs |-> PlanIdle]
  /\ planRet = NoPlanReturn
  /\ ChatHandlerIdle

\* The plan service serving one request at a time.
InitPlanSeq ==
  /\ EmptyStore
  /\ clock = 1
  /\ goroutines = {"p1"}
  /\ clients = Users
  /\ callsLeft = MaxPlanCalls
  /\ call = [p \in Procs |-> Idle]
  /\ ret = NoReturn
  /\ muAssessments = Unlocked
  /\ repoCall = [p \in Procs |-> NoRepoCall]
  /\ planTasks \in {GeneratedTasks,
                    [GeneratedTasks EXCEPT ![2] = CompletedTask(@, 1)]}
  /\ planCall = [p \in Procs |-> PlanIdle]
  /\ planRet = NoPlanReturn
  /\ ChatHandlerIdle

NextPlan ==
  \/ PlanTick
  \/ \E p \in Procs, taskID \in 1..(Len(GeneratedTasks) + 1), u \in clients :
       MarkTaskCompleted_GetTask(p, taskID, u)
  \/ \E p \in Procs : MarkTaskCompleted_Check(p)
  \/ \E p \in Procs : MarkTaskCompleted_Update(p)
  \/ \E p \in Procs, taskID \in 1..(Len(GeneratedTasks) + 1), u \in clients :
       MarkTaskSkipped_GetTask(p, taskID, u)
  \/ \E p \in Procs : MarkTaskSkipped_Check(p)
  \/ \E p \in Procs : MarkTaskSkipped_Update(p)

SpecPlan == InitPlan /\ [][NextPlan]_vars

SpecPlanSeq == InitPlanSeq /\ [][NextPlan]_vars

(* ------------- services: one user answering the questionnaire ---------- *)

\* The values a user gives to a presented question without declining it: an
\* ordinary answer, or the option that declines the other of the two
\* questions processSpecialAnswers knows.
FlowAnswers(questionID) ==
  {<<Yes>>}
  \cup (IF questionID = "q_welcome" THEN {<<IDoNotAgree>>} ELSE {})
  \cup (IF questionID = "q_privacy_consent" THEN {<<NoNextTime>>} ELSE {})

\* the user's first request: StartOrContinueAssessment
Flow_Start(p) ==
  /\ ret = NoReturn
  /\ StartOrContinueAssessment_Lookup(p, "u1")

\* the user answers the question the last call presented
Flow_Answer(p) ==
  /\ ret.question # NilQuestion
  /\ \E answerValues \in FlowAnswers(ret.question) :
       SubmitAnswer_Lookup(p, "u1", ret.question, answerValues)

\* A fresh user who starts the assessment and then answers every question
\* presented, for MaxFlowCalls calls served one at a time.
InitFlow ==
  /\ EmptyStore
  /\ clock = 1
  /\ goroutines = {"p1"}
  /\ clients = {"u1"}
  /\ callsLeft = MaxFlowCalls
  /\ call = [p \in Procs |-> Idle]
  /\ ret = NoReturn
  /\ muAssessments = Unlocked
  /\ repoCall = [p \in Procs |-> NoRepoCall]
  /\ PlanServiceIdle
  /\ ChatHandlerIdle

NextFlow ==
  \/ Tick
  \/ \E p \in Procs : Flow_Start(p)
  \/ \E p \in Procs : StartOrContinueAssessment_Create(p)
  \/ \E p \in Procs : StartOrContinueAssessment_Decide(p)
  \/ \E p \in Procs : StartOrContinueAssessment_Write(p)
  \/ \E p \in Procs : StartOrContinueAssessment_Update(p)
  \/ \E p \in Procs : StartOrContinueAssessment_Return(p)
  \/ \E p \in Procs : Flow_Answer(p)
  \/ \E p \in Procs : SubmitAnswer_Validate(p)
  \/ \E p \in Procs : SubmitAnswer_Upsert(p)
  \/ \E p \in Procs : SubmitAnswer_Advance(p)
  \/ \E p \in Procs : SubmitAnswer_Update(p)
  \/ \E p \in Procs : SubmitAnswer_Return(p)

\* the user keeps answering and the service keeps serving
SpecFlow == InitFlow /\ [][NextFlow]_vars /\ WF_vars(NextFlow)

(* --------------------- api: the guest quota of ChatHandler -------------- *)

\* Line 135: isGuest
IsGuest(userID) == HasPrefix(userID, GuestPrefix)

\* GetQuota: MessagesSent of the guest's row, 0 when the guest has no row
GetQuota(quotas, guestUserID) == quotas[guestUserID]

\* IncrementQuota: the upsert is one statement, messages_sent + 1
IncrementQuota(quotas, guestUserID) == [quotas EXCEPT ![guestUserID] = @ + 1]

\* Lines 125-150: a request arrives; a guest's quota is read and the request
\* is refused with 403 when MessagesSent has reached GuestChatQuota.
ChatHandler_Check(p, userID) ==
  /\ p \in goroutines
  /\ chatCall[p].pc = "idle"
  /\ callsLeft > 0
  /\ callsLeft' = callsLeft - 1
  /\ IF IsGuest(userID) /\ GetQuota(guestQuotas, userID) >= GuestChatQuota
     THEN UNCHANGED chatCall
     ELSE chatCall' = [chatCall EXCEPT ![p] = ChatFrame("serving", userID)]
  /\ UNCHANGED <<repoVars, envVars, call, ret, lockVars, planVars, guestQuotas>>

\* Lines 152-298: the message is saved, an AI is selected and the reply is
\* streamed; the handler returns early on each of the errors on the way
\* (lines 161-164, 193-204, 232-238), and otherwise goes on to line 301.
ChatHandler_Serve(p) ==
  /\ chatCall[p].pc = "serving"
  /\ \/ chatCall' = [chatCall EXCEPT ![p] = ChatIdle]
     \/ chatCall' = [chatCall EXCEPT ![p].pc = "increment"]
  /\ UNCHANGED <<repoVars, envVars, callsLeft, call, ret, lockVars, planVars, guestQuotas>>

\* Lines 301-310: a guest's MessagesSent is incremented; when the increment
\* fails the error is logged and the count stays.
ChatHandler_Increment(p) ==
  /\ chatCall[p].pc = "increment"
  /\ IF IsGuest(chatCall[p].userID)
     THEN \/ guestQuotas' = IncrementQuota(guestQuotas, chatCall[p].userID)
          \/ UNCHANGED guestQuotas
     ELSE UNCHANGED guestQuotas
  /\ chatCall' = [chatCall EXCEPT ![p] = ChatIdle]
  /\ UNCHANGED <<repoVars, envVars, callsLeft, call, ret, lockVars, planVars>>

\* The handler serving chat requests side by side, for MaxChatRequests
\* requests, on a quota table without rows.
InitQuota ==
  /\ EmptyStore
  /\ clock = 1
  /\ goroutines = Procs
  /\ clients = Users
  /\ callsLeft = MaxChatRequests
  /\ call = [p \in Procs |-> Idle]
  /\ ret = NoReturn
  /\ muAssessments = Unlocked
  /\ repoCall = [p \in Procs |-> NoRepoCall]
  /\ PlanServiceIdle
  /\ ChatHandlerIdle

\* The handler serving one chat request at a time.
InitQuotaSeq ==
  /\ EmptyStore
  /\ clock = 1
  /\ goroutines = {"p1"}
  /\ clients = Users
  /\ callsLeft = MaxChatRequests
  /\ call = [p \in Procs |-> Idle]
  /\ ret = NoReturn
  /\ muAssessments = Unlocked
  /\ repoCall = [p \in Procs |-> NoRepoCall]
  /\ PlanServiceIdle
  /\ ChatHandlerIdle

NextQuota ==
  \/ \E p \in Procs, userID \in ChatUsers : ChatHandler_Check(p, userID)
  \/ \E p \in Procs : ChatHandler_Serve(p)
  \/ \E p \in Procs : ChatHandler_Increment(p)

SpecQuota == InitQuota /\ [][NextQuota]_vars

SpecQuotaSeq == InitQuotaSeq /\ [][NextQuota]_vars

(* ------------------------------ properties ----------------------------- *)

\* the assessments of a user that are in progress
InProgressOf(userID) ==
  {id \in DOMAIN userAssessments :
     /\ userAssessments[id].UserID = userID
     /\ userAssessments[id].Status = AssessmentStatusInProgress}

\* C1: a ScheduleAIResponses call for a user who has an in_progress
\* assessment, with the assessment persona among availableAIs, returns
\* exactly [hs_profile_assessment_agent] and no error, whatever the message,
\* the history and the matched tags, and does not run the tag classification
\* and scoring.
C1_OverridePrecedence ==
  [][callsLeft' # callsLeft =>
       \A u \in {v \in Users : InProgressOf(v) # {}} :
         \A in \in {x \in ScheduleInputs :
                      \E i \in 1..Len(x[3]) : x[3][i].ID = "hs_profile_assessment_agent"} :
           \A p \in Procs :
             ScheduleAIResponses(p, u, in[1], in[2], in[3], in[4])
             => /\ ret'.selected = <<"hs_profile_assessment_agent">>
                /\ ret'.err = NoError
                /\ ~ret'.analyzed]_vars

\* C1 happens: a scheduling call has returned the assessment persona, with
\* no tag classification, for a user who is inside an assessment.
C1_Witness ==
  /\ ret.op = "ScheduleAIResponses"
  /\ InProgressOf(ret.userID) # {}
  /\ ret.selected = <<"hs_profile_assessment_agent">>
  /\ ~ret.analyzed

\* the catalog as a set, and the Order of a question
Catalog == {getDefaultAssessmentQuestions[i] : i \in 1..Len(getDefaultAssessmentQuestions)}

OrderOf(id) == (CHOOSE q \in Catalog : q.ID = id).Order

\* the question of lowest Order
LowestOrder == (CHOOSE q \in Catalog : \A r \in Catalog : q.Order <= r.Order).ID

\* the question whose Order follows that of id, NilQuestion after the last
NextByOrder(id) ==
  LET later == {q \in Catalog : q.Order > OrderOf(id)}
  IN IF later = {} THEN NilQuestion
     ELSE (CHOOSE q \in later : \A r \in later : q.Order <= r.Order).ID

\* the questions an assessment holds an answer to
AnsweredIDs(a) == {a.Answers[i].QuestionID : i \in 1..Len(a.Answers)}

\* C2: questions are presented in ascending catalog order and none is
\* skipped.  The question StartOrContinue presents is the one of lowest Order
\* when nothing is answered yet, and always the one that follows, by Order,
\* the questions answered; an accepted SubmitAnswer for a question that is not
\* the last returns the question next by Order and stores its id as
\* CurrentQuestionID.  (Calls served one at a time.)
C2_AscendingCatalogOrder ==
  [][\A p \in Procs :
       /\ (/\ SubmitAnswer_Return(p)
           /\ NextByOrder(call[p].questionID) # NilQuestion)
          => /\ ret'.err = NoError
             /\ ret'.question = NextByOrder(call[p].questionID)
             /\ OrderOf(ret'.question) > OrderOf(call[p].questionID)
             /\ userAssessments'[ret'.assessment].CurrentQuestionID = ret'.question
       /\ (/\ StartOrContinueAssessment_Return(p)
           /\ ret'.question # NilQuestion)
          => LET a == userAssessments'[ret'.assessment]
             IN /\ a.Answers = <<>> => ret'.question = LowestOrder
                /\ AnsweredIDs(a) = {q.ID : q \in {r \in Catalog :
                                                      r.Order < OrderOf(ret'.question)}}
                /\ a.CurrentQuestionID = ret'.question]_vars

\* C2 happens: the answer to a question in the middle of the catalog was
\* accepted and the question after it returned.
C2_Witness ==
  /\ ret.op = "SubmitAnswer"
  /\ ret.err = NoError
  /\ ret.question = "q_stress_level"
  /\ userAssessments[ret.assessment].CurrentQuestionID = "q_stress_level"
  /\ "q_sleep_quality" \in AnsweredIDs(userAssessments[ret.assessment])

\* C3: a StartOrContinue call that follows a StartOrContinue call of the same
\* user, with no SubmitAnswer in between, returns the same question id as the
\* call before it and changes neither CurrentQuestionID nor Answers of any
\* assessment (nor creates one).  (Calls served one at a time.)
C3_RepromptIdempotent ==
  [][\A p \in Procs :
       (/\ call[p].op = "StartOrContinue"
        /\ ret.op = "StartOrContinue"
        /\ ret.userID = call[p].userID)
       => /\ StartOrContinueAssessment_Return(p) =>
               /\ ret'.question = ret.question
               /\ ret'.assessment = ret.assessment
               /\ ret'.err = ret.err
          /\ DOMAIN userAssessments' = DOMAIN userAssessments
          /\ \A id \in DOMAIN userAssessments :
               /\ userAssessments'[id].CurrentQuestionID =
                    userAssessments[id].CurrentQuestionID
               /\ userAssessments'[id].Answers = userAssessments[id].Answers]_vars

\* C3 happens: StartOrContinue has returned a question to a user and the next
\* call, again StartOrContinue of that user, is about to return.
C3_Witness ==
  \E p \in goroutines :
    /\ call[p].op = "StartOrContinue"
    /\ call[p].pc = "soc_return"
    /\ ret.op = "StartOrContinue"
    /\ ret.userID = call[p].userID
    /\ ret.err = NoError
    /\ ret.question # NilQuestion
    /\ call[p].nextQuestionToShow = ret.question

\* the assessments of a user that are completed or cancelled
TerminalOf(userID) ==
  {id \in DOMAIN userAssessments :
     /\ userAssessments[id].UserID = userID
     /\ userAssessments[id].Status \in {"completed", "cancelled"}}

C5_TerminalStatusIsFinal ==
  [][\A id \in DOMAIN userAssessments :
       userAssessments[id].Status \in {"completed", "cancelled"}
       => userAssessments'[id].Status = userAssessments[id].Status]_vars

\* C6: no assessment ever holds two answers to one question.
C6_OneAnswerPerQuestion ==
  \A id \in DOMAIN userAssessments :
    \A i, j \in 1..Len(userAssessments[id].Answers) :
      userAssessments[id].Answers[i].QuestionID = userAssessments[id].Answers[j].QuestionID
      => i = j

\* C7: a StartOrContinue call of a user who has no in_progress assessment
\* creates one assessment, in_progress and with no answers, creates no other,
\* and returns the first question (q_welcome) with no error, the new
\* assessment stored with CurrentQuestionID q_welcome.  (Calls served one at a
\* time.)
C7_StartCreatesAssessment ==
  [][\A p \in Procs :
       /\ \A u \in Users :
            (StartOrContinueAssessment_Lookup(p, u) /\ InProgressOf(u) = {})
            => call'[p].pc = "soc_create" /\ call'[p].created
       /\ (StartOrContinueAssessment_Create(p) /\ call[p].userID \in Users)
          => /\ Len(userAssessments') = Len(userAssessments) + 1
             /\ SubSeq(userAssessments', 1, Len(userAssessments)) = userAssessments
             /\ userAssessments'[Len(userAssessments')].UserID = call[p].userID
             /\ userAssessments'[Len(userAssessments')].Status = "in_progress"
             /\ userAssessments'[Len(userAssessments')].Answers = <<>>
             /\ call'[p].assessment = Len(userAssessments')
       /\ (call[p].op = "StartOrContinue" /\ ~StartOrContinueAssessment_Create(p))
          => DOMAIN userAssessments' = DOMAIN userAssessments
       /\ (/\ call[p].op = "StartOrContinue"
           /\ call[p].created
           /\ call[p].userID \in Users
           /\ call'[p].pc = "idle")
          => /\ StartOrContinueAssessment_Return(p)
             /\ ret'.question = "q_welcome"
             /\ ret'.err = NoError
             /\ ret'.assessment = call[p].assessment
             /\ userAssessments'[ret'.assessment].UserID = call[p].userID
             /\ userAssessments'[ret'.assessment].Status = "in_progress"
             /\ userAssessments'[ret'.assessment].Answers = <<>>
             /\ userAssessments'[ret'.assessment].CurrentQuestionID = "q_welcome"]_vars

\* C7 happens: StartOrContinue has created the first assessment of user u2,
\* who had none, and returned q_welcome.
C7_Witness ==
  /\ ret.op = "StartOrContinue"
  /\ ret.userID = "u2"
  /\ ret.question = "q_welcome"
  /\ ret.err = NoError
  /\ InProgressOf("u2") = {ret.assessment}
  /\ userAssessments[ret.assessment].CurrentQuestionID = "q_welcome"
  /\ userAssessments[ret.assessment].Answers = <<>>

\* C8: a SubmitAnswer call whose answer is accepted (an ordinary answer to
\* the current question) records the answer and runs the store update before
\* it returns; on the last question (q_privacy_consent) the assessment is then
\* completed, with CompletedAt set and CurrentQuestionID empty, and the call
\* returns no question and no error; on any earlier question the assessment
\* stays in_progress.  (Calls served one at a time.)
C8_LastAnswerCompletes ==
  [][\A p \in Procs :
       LET id == call[p].assessment
           questionID == call[p].questionID
           isLast == NextByOrder(questionID) = NilQuestion
       IN /\ (/\ SubmitAnswer_Validate(p)
               /\ questionID \in {q.ID : q \in Catalog}
               /\ userAssessments[id].CurrentQuestionID = questionID
               /\ call[p].answerValues = <<Yes>>)
              => call'[p].pc = "sa_find"
          /\ (call[p].pc # "sa_return" /\ call'[p].pc = "sa_return")
              => /\ SubmitAnswer_Update(p)
                 /\ userAssessments'[id].UpdatedAt = clock
          /\ SubmitAnswer_Return(p)
              => /\ userAssessments' = userAssessments
                 /\ \E i \in 1..Len(userAssessments[id].Answers) :
                      userAssessments[id].Answers[i] =
                        [QuestionID |-> questionID, Answer |-> call[p].answerValues]
                 /\ ret'.err = NoError
                 /\ ret'.assessment = id
                 /\ isLast => /\ userAssessments[id].Status = "completed"
                              /\ userAssessments[id].CompletedAt # NilTime
                              /\ userAssessments[id].CurrentQuestionID = ""
                              /\ ret'.question = NilQuestion
                 /\ ~isLast => /\ userAssessments[id].Status = "in_progress"
                               /\ userAssessments[id].CompletedAt = NilTime]_vars

\* C8 happens: the answer to q_privacy_consent was accepted and the call has
\* returned the completed assessment.
C8_Witness ==
  /\ ret.op = "SubmitAnswer"
  /\ ret.err = NoError
  /\ ret.question = NilQuestion
  /\ ret.assessment # NilAssessment
  /\ userAssessments[ret.assessment].Status = "completed"
  /\ userAssessments[ret.assessment].CompletedAt # NilTime
  /\ userAssessments[ret.assessment].CurrentQuestionID = ""
  /\ "q_privacy_consent" \in AnsweredIDs(userAssessments[ret.assessment])

\* the declining option of a question is among the values
Declines(questionID, answerValues) ==
  \/ /\ questionID = "q_welcome"
     /\ \E i \in 1..Len(answerValues) : answerValues[i] = NoNextTime
  \/ /\ questionID = "q_privacy_consent"
     /\ \E i \in 1..Len(answerValues) : answerValues[i] = IDoNotAgree

\* C9: a SubmitAnswer call on the current question q_welcome with "No, next
\* time" among the values, or on the current question q_privacy_consent with
\* "I do not agree", makes the assessment cancelled, empties
\* CurrentQuestionID, runs the store update before it returns, adds no
\* answer, and returns no question and an error.  (Calls served one at a
\* time.)
C9_DecliningCancels ==
  [][\A p \in Procs :
       LET id == call[p].assessment
           questionID == call[p].questionID
       IN /\ (/\ SubmitAnswer_Validate(p)
               /\ Declines(questionID, call[p].answerValues)
               /\ userAssessments[id].CurrentQuestionID = questionID)
              => /\ call'[p].pc = "sa_cancel_current"
                 /\ userAssessments'[id].Status = "cancelled"
                 /\ userAssessments'[id].Answers = userAssessments[id].Answers
          /\ SubmitAnswer_Cancel(p)
              => /\ Declines(questionID, call[p].answerValues)
                 /\ userAssessments'[id].Answers = userAssessments[id].Answers
                 /\ userAssessments'[id].Status = "cancelled"
                 /\ userAssessments'[id].CurrentQuestionID = ""
                 /\ call'[p].pc = "idle"
                    => /\ userAssessments'[id].UpdatedAt = clock
                       /\ ret'.question = NilQuestion
                       /\ ret'.err # NoError
                       /\ ret'.assessment = id
                       /\ questionID \notin AnsweredIDs(userAssessments'[id])]_vars

\* C9 happens: a declining answer to q_privacy_consent has cancelled an
\* assessment that holds the answers given before it.
C9_Witness ==
  /\ ret.op = "SubmitAnswer"
  /\ ret.err = "cancelled_privacy"
  /\ ret.question = NilQuestion
  /\ userAssessments[ret.assessment].Status = "cancelled"
  /\ userAssessments[ret.assessment].CurrentQuestionID = ""
  /\ "q_main_goals" \in AnsweredIDs(userAssessments[ret.assessment])
  /\ "q_privacy_consent" \notin AnsweredIDs(userAssessments[ret.assessment])

\* a SubmitAnswer call of goroutine p checks its question against an
\* in_progress assessment that is at another question, the first question
\* submitted while CurrentQuestionID is empty excepted
Mismatch(p) ==
  LET a == userAssessments[call[p].assessment]
  IN /\ SubmitAnswer_Validate(p)
     /\ a.Status = "in_progress"
     /\ a.CurrentQuestionID # call[p].questionID
     /\ ~(a.CurrentQuestionID = "" /\ call[p].questionID = "q_welcome")

MissingValue(p) ==
  LET a == userAssessments[call[p].assessment]
      questionID == call[p].questionID
      values == call[p].answerValues
  IN /\ SubmitAnswer_Validate(p)
     /\ \E q \in Catalog : q.ID = questionID /\ q.IsRequired
     /\ \/ values = <<>>
        \/ /\ Len(values) = 1
           /\ \A i \in 1..Len(values[1]) : values[1][i] \in {" ", "\t", "\n", "\r"}
     /\ \/ a.CurrentQuestionID = questionID
        \/ (a.CurrentQuestionID = "" /\ questionID = LowestOrder)

\* C11: a SubmitAnswer for a required question with no value, or with one
\* value that is empty or blank, returns an error together with that same
\* question and changes nothing: the stored assessment keeps its Status, its
\* CurrentQuestionID and its Answers, and no other record changes.
C11_RequiredRejectedNoMutation ==
  [][\A p \in Procs :
       MissingValue(p)
       => LET id == call[p].assessment
          IN /\ call'[p].pc = "idle"
             /\ ret'.op = "SubmitAnswer"
             /\ ret'.err # NoError
             /\ ret'.question = call[p].questionID
             /\ ret'.assessment = id
             /\ userAssessments'[id].Status = userAssessments[id].Status
             /\ userAssessments'[id].CurrentQuestionID =
                  userAssessments[id].CurrentQuestionID
             /\ userAssessments'[id].Answers = userAssessments[id].Answers
             /\ \A other \in DOMAIN userAssessments \ {id} :
                  userAssessments'[other] = userAssessments[other]]_vars

\* a step in which a ScheduleAIResponses call is admitted and returns
ScheduleStep ==
  /\ callsLeft' # callsLeft
  /\ call' = call
  /\ ret'.op = "ScheduleAIResponses"

\* the step is the call ScheduleAIResponses(userID, in) of some goroutine
Schedules(userID, in) ==
  \E p \in Procs : ScheduleAIResponses(p, userID, in[1], in[2], in[3], in[4])

\* the ids of the personas of a list
IDsOf(availableAIs) == {availableAIs[i].ID : i \in 1..Len(availableAIs)}

\* C12: a ScheduleAIResponses call for a user who has an in_progress
\* assessment, with hs_profile_assessment_agent not among availableAIs,
\* returns an error and the nil list, and runs neither the tag
\* classification and scoring nor the fallback.
C12_AssessorUnavailable ==
  [][ScheduleStep =>
       \A in \in {x \in ScheduleInputs : "hs_profile_assessment_agent" \notin IDsOf(x[3])} :
         (InProgressOf(ret'.userID) # {} /\ Schedules(ret'.userID, in))
         => /\ ret'.err # NoError
            /\ ret'.nilList
            /\ ret'.selected = <<>>
            /\ ~ret'.analyzed]_vars

\* C12 happens: a scheduling call for a user inside an assessment has
\* returned the error of the missing assessment persona and no list.
C12_Witness ==
  /\ ret.op = "ScheduleAIResponses"
  /\ InProgressOf(ret.userID) # {}
  /\ ret.err = "assessment_agent_unavailable"
  /\ ret.nilList
  /\ ret.selected = <<>>

\* C13: for a user who is not inside an assessment, a run of
\* ScheduleAIResponses returns the same persona ids in the same order as any
\* other run on the same message, history, personas and matched tags, also
\* when personas tie for the highest score.
C13_SchedulingDeterministic ==
  [][ScheduleStep =>
       \A in \in ScheduleInputs :
         (InProgressOf(ret'.userID) = {} /\ Schedules(ret'.userID, in))
         => \A other \in ScheduleOutcomes(ret'.userID, in[1], in[2], in[3], in[4]) :
              /\ other.selected = ret'.selected
              /\ other.err = ret'.err]_vars

\* two characters are the same letter, capital or small
LetterPairs == {{UpperCase[k], LowerCase[k]} : k \in 1..26}

SameLetter(a, b) == a = b \/ {a, b} \in LetterPairs

\* the name occurs in the message, capitals and small letters taken alike
\* (an "@" before it makes no difference to that)
NamedIn(message, name) ==
  \E at \in 0..Len(message) :
    /\ at + Len(name) <= Len(message)
    /\ \A k \in 1..Len(name) : SameLetter(message[at + k], name[k])

\* the entries of the history that are among its last three
LastThree(history) == {i \in 1..Len(history) : i > Len(history) - 3}

\* the tags the classifier matched (none when its call failed)
MatchedTags(analysis) == IF analysis.failed THEN <<>> ELSE analysis.tags

\* the score the scoring loop of a call with arguments in leaves for a
\* persona of the list: its entry in aiScores, 0 when it has none
GivenScore(in, ai) ==
  LET aiScores == ScoreLoop(in[3], 1, MatchedTags(in[4]), in[1], in[2], <<>>)
  IN IF ai.ID \in DOMAIN aiScores THEN aiScores[ai.ID] ELSE 0

\* 3 for every matched tag that is in the persona's tag set, 5 for the name
\* in the message
TagAndNamePoints(in, ai) ==
  3 * Cardinality({i \in 1..Len(MatchedTags(in[4])) :
                     \E j \in 1..Len(ai.Tags) : ai.Tags[j] = MatchedTags(in[4])[i]})
  + (IF NamedIn(in[1], ai.Name) THEN 5 ELSE 0)

\* the personas of a list that are not the router
NonRouter(availableAIs) ==
  {availableAIs[i] : i \in {j \in 1..Len(availableAIs) : availableAIs[j].ID # "ai0"}}

\* 1 when the persona's name is the Name of one of the last 3 history
\* entries; with content: of one whose Content is not empty
SpokePoint(in, ai) ==
  IF \E i \in LastThree(in[2]) : in[2][i].Name = ai.Name THEN 1 ELSE 0

SpokeWithContentPoint(in, ai) ==
  IF \E i \in LastThree(in[2]) : in[2][i].Name = ai.Name /\ in[2][i].Content # <<>>
  THEN 1 ELSE 0

\* the scheduling inputs on which every non-router persona is given the
\* points for tags and name plus the point for having spoken; plus the
\* point for having spoken with content
ScoredAsStated ==
  {in \in ScheduleInputs :
     \A ai \in NonRouter(in[3]) :
       GivenScore(in, ai) = TagAndNamePoints(in, ai) + SpokePoint(in, ai)}

ScoredWithContent ==
  {in \in ScheduleInputs :
     \A ai \in NonRouter(in[3]) :
       GivenScore(in, ai) = TagAndNamePoints(in, ai) + SpokeWithContentPoint(in, ai)}

\* C14 as stated: the score of each non-router persona is 3 times the number
\* of matched tags in its tag set, plus 5 if its name is in the message
\* (capitals and small letters alike, with or without "@"), plus 1 if its
\* name is the Name of at least one of the last 3 history entries.
C14_ScoreFormula ==
  [][ScheduleStep =>
       \A in \in ScheduleInputs :
         (InProgressOf(ret'.userID) = {} /\ Schedules(ret'.userID, in))
         => in \in ScoredAsStated]_vars

\* C14, amended: the score is 3 times the number of matched tags in the
\* persona's tag set, plus 5 if its name is in the message, plus 1 if its
\* name is the Name of at least one of the last 3 history entries whose
\* Content is not empty.
C14_ScoreFormulaWithContent ==
  [][ScheduleStep =>
       \A in \in ScheduleInputs :
         (InProgressOf(ret'.userID) = {} /\ Schedules(ret'.userID, in))
         => in \in ScoredWithContent]_vars

\* C14 happens: the scoring has run and a persona that is not the fallback
\* was selected, which only a score above 0 brings about.
C14_Witness ==
  /\ ret.op = "ScheduleAIResponses"
  /\ ret.analyzed
  /\ ret.err = NoError
  /\ ret.selected = <<"hs_knowledge_expert_agent">>

\* C15: when the user is not inside an assessment and some non-router
\* persona scores above 0, ScheduleAIResponses returns exactly one persona id
\* and no error; that persona is an available non-router persona whose score
\* is above 0 and not below the score of any other available non-router
\* persona.
C15_TopScorerOnly ==
  [][ScheduleStep =>
       \A in \in ScheduleInputs :
         (/\ InProgressOf(ret'.userID) = {}
          /\ \E ai \in NonRouter(in[3]) : GivenScore(in, ai) > 0
          /\ Schedules(ret'.userID, in))
         => /\ Len(ret'.selected) = 1
            /\ ret'.err = NoError
            /\ ~ret'.nilList
            /\ \E ai \in NonRouter(in[3]) :
                 /\ ai.ID = ret'.selected[1]
                 /\ GivenScore(in, ai) > 0
                 /\ \A other \in NonRouter(in[3]) :
                      GivenScore(in, ai) >= GivenScore(in, other)]_vars

\* C15 happens: after the scoring, exactly one persona was returned, and it
\* is not the fallback persona.
C15_Witness ==
  /\ ret.op = "ScheduleAIResponses"
  /\ ret.analyzed
  /\ ret.err = NoError
  /\ Len(ret.selected) = 1
  /\ ret.selected[1] # "hs_empathy_agent"

\* C16: when the user is not inside an assessment and no non-router persona
\* scores above 0 (the classifier matched nothing, or its call failed),
\* ScheduleAIResponses returns no error, and returns exactly
\* [hs_empathy_agent] when that persona is among availableAIs and the empty
\* list otherwise.
C16_FallbackOrEmpty ==
  [][ScheduleStep =>
       \A in \in ScheduleInputs :
         (/\ InProgressOf(ret'.userID) = {}
          /\ \A ai \in NonRouter(in[3]) : GivenScore(in, ai) = 0
          /\ Schedules(ret'.userID, in))
         => /\ ret'.err = NoError
            /\ ~ret'.nilList
            /\ ret'.selected = IF "hs_empathy_agent" \in IDsOf(in[3])
                               THEN <<"hs_empathy_agent">>
                               ELSE <<>>]_vars

\* C16 happens: the scoring has run, no persona was selected, and the call
\* returned the empty list and no error.
C16_Witness ==
  /\ ret.op = "ScheduleAIResponses"
  /\ ret.analyzed
  /\ ret.err = NoError
  /\ ret.selected = <<>>
  /\ ~ret.nilList

\* C17: no ScheduleAIResponses call returns the router persona's id (ai0),
\* whatever the message, the history, the matched tags and availableAIs.
C17_RouterNeverSelected ==
  [][ScheduleStep =>
       \A i \in 1..Len(ret'.selected) : ret'.selected[i] # "ai0"]_vars

\* C17 happens: the scoring has selected the assessment persona, which in
\* the requests that arrive is available without the fallback persona only
\* beside a router that carries a matched tag and is named in the message.
C17_Witness ==
  /\ ret.op = "ScheduleAIResponses"
  /\ ret.analyzed
  /\ ret.selected = <<"hs_profile_assessment_agent">>

\* the completed assessments of a user
CompletedOf(userID) ==
  {id \in DOMAIN userAssessments :
     /\ userAssessments[id].UserID = userID
     /\ userAssessments[id].Status = "completed"}

\* C18: GetAssessmentResult(userID) returns no error; it returns a completed
\* assessment of the user whose UpdatedAt no other completed assessment of
\* the user exceeds, and nil when the user has no completed assessment (no
\* record at all, or only in_progress and cancelled ones).
C18_LatestCompletedOrNil ==
  [][\A p \in Procs, u \in Users :
       GetAssessmentResult(p, u)
       => /\ ret'.op = "GetAssessmentResult"
          /\ ret'.err = NoError
          /\ CompletedOf(u) = {} => ret'.assessment = NilAssessment
          /\ CompletedOf(u) # {} =>
               /\ ret'.assessment \in CompletedOf(u)
               /\ \A id \in CompletedOf(u) :
                    userAssessments[ret'.assessment].UpdatedAt
                      >= userAssessments[id].UpdatedAt]_vars

\* C18 happens: GetAssessmentResult has returned the completed assessment
\* that was created first, which was updated after the user's other
\* completed assessment.
C18_Witness ==
  /\ ret.op = "GetAssessmentResult"
  /\ ret.err = NoError
  /\ ret.assessment = 1
  /\ CompletedOf(ret.userID) = {1, 2}
  /\ userAssessments[1].UpdatedAt > userAssessments[2].UpdatedAt

\* the goroutines inside UpdateUserAssessment whose argument names a stored
\* record
Updating ==
  {p \in Procs : /\ repoCall[p].pc = "update"
                 /\ Deref(userAssessments, repoCall[p].assessment).ID
                      \in DOMAIN userAssessments}

Writers == {p \in Procs : repoCall[p].pc \in {"create", "update"}}

Readers == {p \in Procs : repoCall[p].pc \in {"get_by_id", "get_by_user"}}

\* C20: a goroutine inside CreateUserAssessment or UpdateUserAssessment is the
\* only one inside any method of the store; lookups exclude creates and
\* updates only.
C20_WritersExclusive ==
  \A p \in Writers : Writers \cup Readers = {p}

\* Two lookups are inside the store at the same time.
C20_Witness ==
  /\ Cardinality(Readers) = 2
  /\ muAssessments.readers = 2

\* the steps of the service calls that are calls of CreateUserAssessment or
\* UpdateUserAssessment
StoreCalls == {"soc_create", "soc_update", "sa_cancel_update", "sa_update"}

\* the goroutines that take a step which is a create or an update of the store
InStoreCall == {p \in Procs : call[p].pc \in StoreCalls /\ call'[p] # call[p]}

\* C21: the records that lookups of the store return change only in a step
\* that is a create or an update of the store; what a service call writes to
\* the record it looked up is seen by no other call until its update has run.
C21_ChangesOnlyByStoreCalls ==
  [][userAssessments' # userAssessments => InStoreCall # {}]_vars

\* the goroutines whose SubmitAnswer call runs its store update in this step
\* as the last of the overlapping calls: every other goroutine has run the
\* update of its SubmitAnswer call (it stands before its return, or it has
\* returned last)
LastSubmitUpdate ==
  {p \in Procs :
     /\ call[p].pc \in {"sa_update", "sa_cancel_update"}
     /\ call'[p] # call[p]
     /\ call[p].assessment \in DOMAIN userAssessments
     /\ \A q \in Procs \ {p} :
          \/ call[q].pc = "sa_return" /\ call[q].assessment = call[p].assessment
          \/ /\ call[q].pc = "idle"
             /\ ret.op = "SubmitAnswer"
             /\ ret.assessment = call[p].assessment
             /\ ret.err \in {NoError, "cancelled_welcome", "cancelled_privacy"}}

\* what a SubmitAnswer call computed for the record: a declining answer
\* cancels it and clears its position; an accepted answer is stored under its
\* question, and the position moves to the next question or, after the last
\* one, the record is completed
ComputedBy(frame, rec) ==
  IF frame.pc = "sa_cancel_update"
  THEN rec.Status = AssessmentStatusCancelled /\ rec.CurrentQuestionID = ""
  ELSE /\ \E i \in 1..Len(rec.Answers) :
            /\ rec.Answers[i].QuestionID = frame.questionID
            /\ rec.Answers[i].Answer = frame.answerValues
       /\ IF HasNext(IndexInList(frame.questionID))
          THEN /\ rec.Status = AssessmentStatusInProgress
               /\ rec.CurrentQuestionID = questions[IndexInList(frame.questionID) + 1].ID
          ELSE /\ rec.Status = AssessmentStatusCompleted
               /\ rec.CurrentQuestionID = ""

\* C22: of overlapping SubmitAnswer calls of one user, the call whose store
\* update runs last leaves the record it computed: its answer values, its
\* currentQuestionID and its status.
C22_LastWriteWins ==
  [][\A p \in LastSubmitUpdate :
       ComputedBy(call[p], userAssessments'[call[p].assessment])]_vars

\* the goroutines inside a plan service call whose caller is not the user of
\* the plan that owns the task
Unauthorized ==
  {p \in Procs : /\ planCall[p].pc = "check"
                 /\ planCall[p].task.PlanID \in DOMAIN plans
                 /\ plans[planCall[p].task.PlanID] # planCall[p].userID}

\* C23: a call of MarkTaskCompleted or MarkTaskSkipped by a user other than
\* the one of the plan that owns the task returns the error "unauthorized to
\* modify task" and no task, goes on to no UpdatePlanTask, and leaves the rows
\* of the tasks as they are.
C23_UnauthorizedRefused ==
  [][\A p \in Unauthorized :
       planCall'[p] # planCall[p] =>
         /\ planCall'[p] = PlanIdle
         /\ planRet' = PlanReturned(planCall[p].op, planCall[p].taskID,
                                    planCall[p].userID, NilTask, "unauthorized")
         /\ planTasks' = planTasks]_vars

\* A skip of task 1 has been refused to user u2, who does not own its plan,
\* as the second call of the run; the task is pending as generated.
C23_Witness ==
  /\ planRet.err = "unauthorized"
  /\ planRet.op = "MarkTaskSkipped"
  /\ planRet.taskID = 1
  /\ planRet.userID = "u2"
  /\ planTasks[1] = PendingTask(1, 1)
  /\ callsLeft = MaxPlanCalls - 2

\* the goroutines inside a plan service call that fetched a completed task
FetchedCompleted ==
  {p \in Procs : /\ planCall[p].pc = "check"
                 /\ planCall[p].task.Status = TaskStatusCompleted}

\* the status of no completed task changes
CompletedStays ==
  \A id \in DOMAIN planTasks :
    planTasks[id].Status = TaskStatusCompleted =>
      planTasks'[id].Status = TaskStatusCompleted

\* what a call on a completed task returns to the user of the task's plan:
\* MarkTaskCompleted the task as it is and no error, MarkTaskSkipped no task
\* and the error "cannot skip an already completed task"
RefusedAsCompleted(frame) ==
  IF frame.op = "MarkTaskCompleted"
  THEN PlanReturned(frame.op, frame.taskID, frame.userID, frame.task, NoError)
  ELSE PlanReturned(frame.op, frame.taskID, frame.userID, NilTask,
                    "cannot_skip_completed")

\* C24: once a task is completed, no sequence of MarkTaskCompleted and
\* MarkTaskSkipped calls changes its status or goes on to UpdatePlanTask; to
\* the user of the task's plan MarkTaskCompleted returns the task as it is and
\* no error, and MarkTaskSkipped the error "cannot skip an already completed
\* task" (any other user is refused as unauthorized).
C24_CompletedIsFinal ==
  [][/\ CompletedStays
     /\ \A p \in FetchedCompleted :
          planCall'[p] # planCall[p] =>
            /\ planCall'[p] = PlanIdle
            /\ planTasks' = planTasks
            /\ planRet' = IF p \in Unauthorized
                          THEN PlanReturned(planCall[p].op, planCall[p].taskID,
                                            planCall[p].userID, NilTask, "unauthorized")
                          ELSE RefusedAsCompleted(planCall[p])]_vars

\* C25: in every reachable state every user has at most one assessment of
\* status in_progress, also when two StartOrContinueAssessment calls of one
\* user both run their lookup before either creates.
C25_OneInProgressPerUser ==
  \A u \in Users : Cardinality(InProgressOf(u)) <= 1

\* the SubmitAnswer calls that have returned in the run of the user who
\* answers the questionnaire (the first call is StartOrContinueAssessment)
Submitted == MaxFlowCalls - callsLeft - 1

\* After k submissions have returned, each was accepted, the record holds k
\* answers and stands at catalog question k+1, which the call presented;
\* after the last question it is completed.
FlowPosition ==
  (ret.op = "SubmitAnswer" /\ call["p1"].pc = "idle") =>
    LET a == userAssessments[ret.assessment]
    IN /\ ret.err = NoError
       /\ Len(a.Answers) = Submitted
       /\ IF Submitted < Len(questions)
          THEN /\ a.Status = AssessmentStatusInProgress
               /\ a.CurrentQuestionID = questions[Submitted + 1].ID
               /\ ret.question = questions[Submitted + 1].ID
          ELSE /\ a.Status = AssessmentStatusCompleted
               /\ ret.question = NilQuestion

\* the user's assessment is completed with an answer to every question
FlowCompleted ==
  /\ userAssessments # <<>>
  /\ userAssessments[1].Status = AssessmentStatusCompleted
  /\ Len(userAssessments[1].Answers) = Len(questions)

\* C26: from StartOrContinueAssessment for a fresh user, when every question
\* presented is answered with a value that is not empty and does not
\* decline, every submission is accepted and moves the position forward by
\* one catalog question, and the assessment is completed after one
\* submission per catalog question (11); the flow does not loop or stall.
C26_FlowCompletes ==
  [](FlowPosition /\ (FlowCompleted => Submitted = Len(questions)))
  /\ <>FlowCompleted

\* The eleventh submission has returned and the assessment is completed.
C26_Witness ==
  /\ FlowCompleted
  /\ ret.op = "SubmitAnswer"
  /\ ret.err = NoError
  /\ call["p1"].pc = "idle"
  /\ Submitted = 11

\* the fields of a record agree with its status: a current question only
\* while in_progress, and then one of the catalog; a completion time exactly
\* when completed
StatusAgrees(a) ==
  /\ a.CurrentQuestionID # "" =>
       /\ a.Status = AssessmentStatusInProgress
       /\ a.CurrentQuestionID \in QuestionIDs
  /\ a.CompletedAt # NilTime <=> a.Status = AssessmentStatusCompleted

\* no service call is under way
NoCallUnderWay == \A p \in Procs : call[p].pc = "idle"

\* C27: in every stored assessment, currentQuestionID is non-empty only while
\* the status is in_progress (and then names a catalog question), and
\* completedAt is set exactly when the status is completed, also when
\* SubmitAnswer calls for the same user overlap. Stated of the states in
\* which no service call is under way.
C27_StatusAgrees ==
  NoCallUnderWay =>
    \A id \in DOMAIN userAssessments : StatusAgrees(userAssessments[id])

\* the question ids of a list of answers, in the list's order
AnswerOrder(answers) == [i \in 1..Len(answers) |-> answers[i].QuestionID]

\* the ids of the first n catalog questions, in catalog order
CatalogPrefix(n) == [i \in 1..n |-> questions[i].ID]

\* a record's answers are the answers to the catalog questions before its
\* current one, or to all of them when it is completed
AnswersFollowCatalog(a) ==
  /\ (a.Status = AssessmentStatusInProgress /\ a.CurrentQuestionID \in QuestionIDs) =>
       AnswerOrder(a.Answers) = CatalogPrefix(IndexInList(a.CurrentQuestionID) - 1)
  /\ a.Status = AssessmentStatusCompleted =>
       AnswerOrder(a.Answers) = CatalogPrefix(Len(questions))

\* C28: between calls served one at a time, a stored in_progress assessment
\* whose currentQuestionID is the catalog question at position i holds
\* answers to exactly the questions before position i, in catalog order, and
\* a completed one holds answers to all catalog questions in order.
C28_AnswersFollowCatalog ==
  NoCallUnderWay =>
    \A id \in DOMAIN userAssessments : AnswersFollowCatalog(userAssessments[id])

\* A SubmitAnswer call has returned having stored an answer and moved the
\* record on to a later question.
C28_Witness ==
  /\ NoCallUnderWay
  /\ ret.op = "SubmitAnswer"
  /\ ret.err = NoError
  /\ ret.assessment \in DOMAIN userAssessments
  /\ userAssessments[ret.assessment].Status = AssessmentStatusInProgress
  /\ Len(userAssessments[ret.assessment].Answers) >= 2

\* C29: for every guest (UserID prefixed "guest_") the stored MessagesSent
\* never exceeds GuestChatQuota, over any number of ChatHandler requests,
\* also when requests of one guest are served between another's quota check
\* and its increment.
C29_QuotaNeverExceeded ==
  \A u \in ChatUsers : IsGuest(u) => guestQuotas[u] <= GuestChatQuota

\* the completion fields of a task follow its status
CompletionFollowsStatus(task) ==
  /\ task.IsCompleted <=> task.Status = TaskStatusCompleted
  /\ task.CompletedAt.Valid <=> task.Status = TaskStatusCompleted

\* C30: after any sequence of MarkTaskCompleted and MarkTaskSkipped calls on
\* tasks that start pending with IsCompleted false and CompletedAt invalid,
\* IsCompleted is true exactly when Status is completed, and CompletedAt.Valid
\* is true exactly when Status is completed.
C30_CompletionFollowsStatus ==
  \A id \in DOMAIN planTasks : CompletionFollowsStatus(planTasks[id])

\* MarkTaskCompleted has completed one task and MarkTaskSkipped has skipped
\* another.
C30_Witness ==
  /\ planTasks[1].Status = TaskStatusCompleted
  /\ planTasks[1].IsCompleted
  /\ planTasks[1].CompletedAt.Valid
  /\ planTasks[2].Status = TaskStatusSkipped
  /\ ~planTasks[2].IsCompleted
  /\ ~planTasks[2].CompletedAt.Valid
  /\ \A p \in Procs : planCall[p].pc = "idle"

====
